---- MODULE Spec2Model ----
(***************************************************************************)
(* Model of the device monitoring and provisioning engine of the ONU power *)
(* monitor: lib/monitoringScheduler.js (the scheduler and its polls) and   *)
(* lib/mikrotikProvisioning.js (the gateway reconciler).                   *)
(*                                                                         *)
(* JavaScript runs one callback at a time, so an action is one callback    *)
(* run from its start to its next await: timer callbacks, the             *)
(* continuations of a poll after each await, and the route handlers that   *)
(* change the device table.                                                *)
(***************************************************************************)
EXTENDS Integers, Sequences, FiniteSets, Bags, TLC

\* ------------------------------------------------------------------------
\* Bounds of the model
\* ------------------------------------------------------------------------
\* device ids of the device table
MaxDevices == 2
\* polls alive at the same time under Spec and PollSpec
MaxPolls == 1
\* devices of the device table under PollSpec
MaxPollDevices == 1
\* polls alive at the same time under CapSpec (exceeds the cap of 10)
MaxCapPolls == 11
\* recurring timers alive in the runtime at the same time
MaxTimers == 3
\* staggered first-poll timeouts pending at the same time
MaxTimeouts == 2

DeviceIds == 1..MaxDevices

\* the config objects a request of the add and update routes carries:
\* monitoringInterval and retryAttempts, 0 standing for a field left out
Settings ==
  { [monitoringInterval |-> 0,  retryAttempts |-> 0],
    [monitoringInterval |-> 60, retryAttempts |-> 1],
    [monitoringInterval |-> 60, retryAttempts |-> 2] }
\* the config objects used where the polls are not followed through their retries
FewSettings ==
  { [monitoringInterval |-> 0,  retryAttempts |-> 0],
    [monitoringInterval |-> 60, retryAttempts |-> 1] }

\* ------------------------------------------------------------------------
\* Program constants
\* ------------------------------------------------------------------------
maxConcurrentMonitoring == 10
DefaultInterval == 900
DefaultRetryAttempts == 3
StaggerIncrement == 2000

\* ------------------------------------------------------------------------
\* Values
\* ------------------------------------------------------------------------
\* a row of onu_devices as the scheduler reads it; id 0 stands for "no row"
NoDevice ==
  [id |-> 0, monitoringInterval |-> 0, retryAttempts |-> 0, device_type |-> "",
   name |-> << >>, mikrotik_tunnel_ip |-> << >>, mikrotik_lhg60g_ip |-> << >>,
   mikrotik_ssh_port |-> 0]

\* a Timeout object returned by setInterval: the device object its callback
\* closes over and its period in ms
NoHandle == [device |-> NoDevice, ms |-> 0]
\* an entry of MonitoringScheduler.timers: { timer, interval }
NoTimer == [timer |-> NoHandle, interval |-> 0]

\* x || d of JavaScript for a number x (0, null and undefined are falsy)
OrNum(x, d) == IF x = 0 THEN d ELSE x
\* x || d of JavaScript for a string x (the empty string is falsy)
OrStr(x, d) == IF x = "" THEN d ELSE x

\* the row that addONUDevice and updateONUDevice write for a config object
RowOf(id, config) ==
  [id |-> id,
   monitoringInterval |-> OrNum(config.monitoringInterval, DefaultInterval),
   retryAttempts |-> OrNum(config.retryAttempts, DefaultRetryAttempts),
   device_type |-> "onu_blue", name |-> << >>, mikrotik_tunnel_ip |-> << >>,
   mikrotik_lhg60g_ip |-> << >>, mikrotik_ssh_port |-> 0]

VARIABLES
  store,                  \* the onu_devices table: id -> row or NoDevice
  nextId,                 \* the next AUTOINCREMENT id of onu_devices
  cache,                  \* the monitoring_cache table: id -> status
  isRunning,              \* MonitoringScheduler.isRunning
  reloadTimer,            \* TRUE while the 10 s reload interval is installed
  timers,                 \* MonitoringScheduler.timers: id -> entry or NoTimer
  deviceStartupDelay,     \* MonitoringScheduler.deviceStartupDelay
  activeMonitoringCount,  \* MonitoringScheduler.activeMonitoringCount
  intervalTimers,         \* bag of the setInterval timers alive in the runtime
  timeouts,               \* bag of the pending setTimeout first polls
  polls,                  \* bag of the monitorDevice invocations not yet finished
  gateway,                \* the control router: its address list and its NAT rules
  lastRun,                \* the latest provisionDevice / deprovisionDevice call
  prevRun,                \* the call before it
  lastResponse,           \* what the latest /api/mikrotik/devices request answered
  lastReload,             \* what the latest reloadDevices() found, where it is kept
  lastCall,               \* the latest call of a parser or extractor, with its result
  ops,                    \* the SSHManager operations: slot -> operation
  runs,                   \* the reconciler's calls under way: slot -> call
  reloadTimers,           \* number of reload intervals alive in the runtime
  lastEnded,              \* the latest monitorDevice invocation that ended, where it is kept
  notif                   \* the notification columns of one device and the polls evaluating them

schedVars == <<store, nextId, cache, isRunning, reloadTimer, timers, deviceStartupDelay,
               activeMonitoringCount, intervalTimers, timeouts, polls>>
provVars == <<gateway, lastRun, prevRun, lastResponse>>
histVars == <<lastReload>>
extVars == <<lastCall, ops, runs>>
auxVars == <<reloadTimers, lastEnded, notif>>
vars == <<schedVars, provVars, histVars, extVars, auxVars>>

One(x) == SetToBag({x})

\* ------------------------------------------------------------------------
\* The device table (DatabaseManager)
\* ------------------------------------------------------------------------
\* SELECT * FROM onu_devices WHERE enabled = 1 ORDER BY name; rows are never
\* disabled by a route, and the names are taken to sort as the ids do
RECURSIVE RowsFrom(_, _)
RowsFrom(st, d) ==
  IF d > MaxDevices THEN << >>
  ELSE (IF st[d] = NoDevice THEN << >> ELSE <<st[d]>>) \o RowsFrom(st, d + 1)

getAllONUDevices == RowsFrom(store, 1)
getONUDevice(id) == store[id]
getDeviceWithCredentials(id) == store[id]

\* ------------------------------------------------------------------------
\* Timers of the runtime
\* ------------------------------------------------------------------------
\* clearInterval(x): cancels x when x is a Timeout object of the runtime and
\* does nothing for any other value
clearInterval(active, x) ==
  IF "device" \in DOMAIN x /\ x \in BagToSet(active) THEN active (-) One(x) ELSE active

\* ------------------------------------------------------------------------
\* MonitoringScheduler: timers
\* ------------------------------------------------------------------------
\* the scheduler fields and runtime timers that a reload rewrites
SchedState ==
  [timers |-> timers, intervalTimers |-> intervalTimers, timeouts |-> timeouts,
   deviceStartupDelay |-> deviceStartupDelay]

\* the existing timer left running when the interval changed
scheduleDeviceMonitoring_keepsOld(s, device) ==
  LET interval == OrNum(device.monitoringInterval, DefaultInterval) * 1000
      existingTimer == s.timers[device.id]
      timer == [device |-> device, ms |-> interval]
      cleared == s.intervalTimers
  IN IF existingTimer # NoTimer /\ existingTimer.interval = interval
     THEN s
     ELSE [timers |-> [s.timers EXCEPT ![device.id] =
                         [timer |-> timer, interval |-> interval]],
           intervalTimers |-> cleared (+) One(timer),
           timeouts |-> IF existingTimer = NoTimer
                        THEN s.timeouts (+)
                             One([device |-> device, delay |-> s.deviceStartupDelay])
                        ELSE s.timeouts,
           deviceStartupDelay |-> IF existingTimer = NoTimer
                                  THEN s.deviceStartupDelay + StaggerIncrement
                                  ELSE s.deviceStartupDelay]

\* the early return for an unchanged interval left out
scheduleDeviceMonitoring_always(s, device) ==
  LET interval == OrNum(device.monitoringInterval, DefaultInterval) * 1000
      existingTimer == s.timers[device.id]
      timer == [device |-> device, ms |-> interval]
      cleared == IF existingTimer # NoTimer
                 THEN clearInterval(s.intervalTimers, existingTimer.timer)
                 ELSE s.intervalTimers
  IN IF FALSE
     THEN s
     ELSE [timers |-> [s.timers EXCEPT ![device.id] =
                         [timer |-> timer, interval |-> interval]],
           intervalTimers |-> cleared (+) One(timer),
           timeouts |-> IF existingTimer = NoTimer
                        THEN s.timeouts (+)
                             One([device |-> device, delay |-> s.deviceStartupDelay])
                        ELSE s.timeouts,
           deviceStartupDelay |-> IF existingTimer = NoTimer
                                  THEN s.deviceStartupDelay + StaggerIncrement
                                  ELSE s.deviceStartupDelay]

\* scheduleDeviceMonitoring(device)
scheduleDeviceMonitoring(s, device) ==
  LET interval == OrNum(device.monitoringInterval, DefaultInterval) * 1000
      existingTimer == s.timers[device.id]
      timer == [device |-> device, ms |-> interval]
      cleared == IF existingTimer # NoTimer
                 THEN clearInterval(s.intervalTimers, existingTimer.timer)
                 ELSE s.intervalTimers
  IN IF existingTimer # NoTimer /\ existingTimer.interval = interval
     THEN s
     ELSE [timers |-> [s.timers EXCEPT ![device.id] =
                         [timer |-> timer, interval |-> interval]],
           intervalTimers |-> cleared (+) One(timer),
           timeouts |-> IF existingTimer = NoTimer
                        THEN s.timeouts (+)
                             One([device |-> device, delay |-> s.deviceStartupDelay])
                        ELSE s.timeouts,
           deviceStartupDelay |-> IF existingTimer = NoTimer
                                  THEN s.deviceStartupDelay + StaggerIncrement
                                  ELSE s.deviceStartupDelay]

\* the loop "for (const device of devices) this.scheduleDeviceMonitoring(device)"
RECURSIVE ScheduleAll(_, _, _)
ScheduleAll(s, devices, i) ==
  IF i > Len(devices) THEN s
  ELSE ScheduleAll(scheduleDeviceMonitoring(s, devices[i]), devices, i + 1)

\* the loop of reloadDevices over this.timers: clearInterval is handed the map
\* entry { timer, interval }, and the entry is deleted from the map
RECURSIVE ClearEntries(_, _, _, _)
ClearEntries(active, map, gone, d) ==
  IF d > MaxDevices THEN active
  ELSE ClearEntries(IF d \in gone THEN clearInterval(active, map[d]) ELSE active,
                    map, gone, d + 1)

\* the startup delay carried over from the reload before
reloadDevices_noReset(s) ==
  LET devices == getAllONUDevices
      currentDeviceIds == {devices[i].id : i \in 1..Len(devices)}
      gone == {d \in DeviceIds : s.timers[d] # NoTimer /\ d \notin currentDeviceIds}
      removed == [s EXCEPT
                    !.intervalTimers = ClearEntries(s.intervalTimers, s.timers, gone, 1),
                    !.timers = [d \in DeviceIds |->
                                  IF d \in gone THEN NoTimer ELSE s.timers[d]]]
  IN ScheduleAll(removed, devices, 1)

\* reloadDevices()
reloadDevices(s) ==
  LET devices == getAllONUDevices
      currentDeviceIds == {devices[i].id : i \in 1..Len(devices)}
      gone == {d \in DeviceIds : s.timers[d] # NoTimer /\ d \notin currentDeviceIds}
      removed == [s EXCEPT
                    !.intervalTimers = ClearEntries(s.intervalTimers, s.timers, gone, 1),
                    !.timers = [d \in DeviceIds |->
                                  IF d \in gone THEN NoTimer ELSE s.timers[d]],
                    !.deviceStartupDelay = 0]
  IN ScheduleAll(removed, devices, 1)

\* the model keeps the runtime's timer bags within its bounds
WithinTimerBounds(s) ==
  /\ BagCardinality(s.intervalTimers) <= MaxTimers
  /\ BagCardinality(s.timeouts) <= MaxTimeouts

\* what reloadDevices() finds for the rows it reads: the ids it registers, in
\* order, those whose interval differs from their entry's and those it keeps
ReloadDigest ==
  LET devices == getAllONUDevices
      ids == [i \in 1..Len(devices) |-> devices[i].id]
      same(d) == timers[d].interval
                   = OrNum(store[d].monitoringInterval, DefaultInterval) * 1000
  IN [traced |-> TRUE,
      fresh |-> SelectSeq(ids, LAMBDA d : timers[d] = NoTimer),
      changed |-> {d \in DeviceIds : store[d] # NoDevice /\ timers[d] # NoTimer /\ ~same(d)},
      kept |-> {d \in DeviceIds : store[d] # NoDevice /\ timers[d] # NoTimer /\ same(d)}]
NoReload == [traced |-> TRUE, fresh |-> << >>, changed |-> {}, kept |-> {}]
Untraced == [traced |-> FALSE, fresh |-> << >>, changed |-> {}, kept |-> {}]

SetSched(s) ==
  /\ lastReload' = (IF lastReload.traced THEN ReloadDigest ELSE lastReload)
  /\ timers' = s.timers
  /\ intervalTimers' = s.intervalTimers
  /\ timeouts' = s.timeouts
  /\ deviceStartupDelay' = s.deviceStartupDelay

\* start() without its isRunning test
start_always ==
  LET s == reloadDevices(SchedState)
  IN /\ WithinTimerBounds(s)
     /\ isRunning' = TRUE
     /\ SetSched(s)
     /\ reloadTimer' = TRUE
     /\ reloadTimers' = reloadTimers + 1
     /\ UNCHANGED <<provVars, extVars, lastEnded, notif>>
     /\ UNCHANGED <<store, nextId, cache, activeMonitoringCount, polls>>

\* start()
start ==
  IF isRunning
  THEN UNCHANGED vars
  ELSE LET s == reloadDevices(SchedState)
       IN /\ WithinTimerBounds(s)
          /\ isRunning' = TRUE
          /\ SetSched(s)
          /\ reloadTimer' = TRUE
          /\ reloadTimers' = reloadTimers + 1
          /\ UNCHANGED <<provVars, extVars, lastEnded, notif>>
          /\ UNCHANGED <<store, nextId, cache, activeMonitoringCount, polls>>

\* stop()
stop ==
  IF ~isRunning
  THEN UNCHANGED vars
  ELSE /\ isRunning' = FALSE
       /\ reloadTimer' = FALSE
       /\ intervalTimers' = ClearEntries(intervalTimers, timers,
                                         {d \in DeviceIds : timers[d] # NoTimer}, 1)
       /\ timers' = [d \in DeviceIds |-> NoTimer]
       /\ reloadTimers' = IF reloadTimer THEN reloadTimers - 1 ELSE reloadTimers
       /\ UNCHANGED <<provVars, histVars, extVars, lastEnded, notif>>
       /\ UNCHANGED <<store, nextId, cache, deviceStartupDelay, activeMonitoringCount,
                      timeouts, polls>>

\* the callback of the reload interval installed by start()
ReloadTimerFires ==
  /\ reloadTimer
  /\ LET s == reloadDevices(SchedState)
     IN /\ WithinTimerBounds(s)
        /\ SetSched(s)
  /\ UNCHANGED <<provVars, extVars, auxVars>>
  /\ UNCHANGED <<store, nextId, cache, isRunning, reloadTimer, activeMonitoringCount, polls>>

\* ------------------------------------------------------------------------
\* MonitoringScheduler: polls
\* ------------------------------------------------------------------------
\* what one call of the device's extractor (monitorONU, monitorMikroTik) does:
\* it returns { success: true }, returns { success: false, error } with or
\* without an error text, or throws an Error with a message
Outcomes ==
  { [success |-> TRUE,  error |-> "",   thrown |-> FALSE],
    [success |-> FALSE, error |-> "",   thrown |-> FALSE],
    [success |-> FALSE, error |-> "e1", thrown |-> FALSE],
    [success |-> FALSE, error |-> "e2", thrown |-> TRUE] }

NoResult == [success |-> FALSE, error |-> ""]

\* a monitorDevice invocation suspended at an await:
\*   waiting     in the sleep of the admission loop
\*   extracting  in attempt number `attempt` of monitorWithRetry
\*   retryDelay  in the delay after the failed attempt number `attempt`
\*   notifying   in processMonitoringResult
\* device is the argument of monitorDevice, currentDevice the row it re-read,
\* seen the outcomes of its extractor calls so far and calls the collaborator
\* calls it has made so far, both in order
NewPoll(device) ==
  [pc |-> "waiting", device |-> device, currentDevice |-> NoDevice, attempt |-> 0,
   lastError |-> "", result |-> NoResult, seen |-> << >>, calls |-> << >>]

InFlight(p) == p.pc # "waiting"

\* the invocation that ended last, as it was when it ended, and the way it
\* ended: "skipped" at the row check, "returned" or "thrown" after the
\* notification call; kept only where traced is set
NoEnd == [traced |-> TRUE, how |-> "none", poll |-> NewPoll(NoDevice)]
Unended == [NoEnd EXCEPT !.traced = FALSE]
SetEnded(ended, p, how) ==
  lastEnded' = IF lastEnded.traced /\ ended
               THEN [traced |-> TRUE, how |-> how, poll |-> p]
               ELSE lastEnded

\* the admission test with the comparison off by one
MustWait_strict(count) == count > maxConcurrentMonitoring

\* the admission test "while (activeMonitoringCount >= maxConcurrentMonitoring)"
MustWait(count) == count >= maxConcurrentMonitoring

\* the return at the missing row taken past the finally block
Admit_keepsSlot(p, others) ==
  LET currentDevice == getDeviceWithCredentials(p.device.id)
  IN IF currentDevice = NoDevice
     THEN [polls |-> others, count |-> activeMonitoringCount + 1, ended |-> TRUE]
     ELSE [polls |-> others (+) One([p EXCEPT !.pc = "extracting",
                                              !.currentDevice = currentDevice,
                                              !.attempt = 1]),
           count |-> activeMonitoringCount + 1, ended |-> FALSE]

\* the poll going on with the row its timer captured when none is stored
Admit_capturedRow(p, others) ==
  LET currentDevice == getDeviceWithCredentials(p.device.id)
  IN [polls |-> others (+) One([p EXCEPT !.pc = "extracting",
                                         !.currentDevice =
                                           IF currentDevice = NoDevice THEN p.device
                                           ELSE currentDevice,
                                         !.attempt = 1]),
      count |-> activeMonitoringCount + 1, ended |-> FALSE]

\* monitorDevice from "this.activeMonitoringCount++" to its first await: the
\* row is re-read; without a row the invocation returns through its finally
\* block, otherwise attempt 1 of monitorWithRetry calls the extractor
Admit(p, others) ==
  LET currentDevice == getDeviceWithCredentials(p.device.id)
  IN IF currentDevice = NoDevice
     THEN [polls |-> others, count |-> (activeMonitoringCount + 1) - 1, ended |-> TRUE]
     ELSE [polls |-> others (+) One([p EXCEPT !.pc = "extracting",
                                              !.currentDevice = currentDevice,
                                              !.attempt = 1]),
           count |-> activeMonitoringCount + 1, ended |-> FALSE]

\* monitorDevice(device), up to its first await
monitorDevice(device) ==
  LET r == IF MustWait(activeMonitoringCount)
           THEN [polls |-> polls (+) One(NewPoll(device)),
                 count |-> activeMonitoringCount, ended |-> FALSE]
           ELSE Admit(NewPoll(device), polls)
  IN /\ polls' = r.polls
     /\ activeMonitoringCount' = r.count
     /\ SetEnded(r.ended, NewPoll(device), "skipped")

\* the callback of a device's setInterval timer
IntervalTimerFires(maxPolls) ==
  \E t \in BagToSet(intervalTimers) :
    /\ BagCardinality(polls) < maxPolls
    /\ monitorDevice(t.device)
    /\ UNCHANGED <<provVars, histVars, extVars, reloadTimers, notif>>
    /\ UNCHANGED <<store, nextId, cache, isRunning, reloadTimer, timers,
                   deviceStartupDelay, intervalTimers, timeouts>>

\* the callback of a staggered first-poll setTimeout
FirstPollFires(maxPolls) ==
  \E t \in BagToSet(timeouts) :
    /\ BagCardinality(polls) < maxPolls
    /\ timeouts' = timeouts (-) One(t)
    /\ monitorDevice(t.device)
    /\ UNCHANGED <<provVars, histVars, extVars, reloadTimers, notif>>
    /\ UNCHANGED <<store, nextId, cache, isRunning, reloadTimer, timers,
                   deviceStartupDelay, intervalTimers>>

\* triggerMonitoring(deviceId); for an unknown id it throws before any poll
triggerMonitoring(maxPolls) ==
  \E deviceId \in DeviceIds :
    LET device == getONUDevice(deviceId)
    IN /\ BagCardinality(polls) < maxPolls
       /\ IF device = NoDevice
          THEN UNCHANGED <<polls, activeMonitoringCount, lastEnded>>
          ELSE monitorDevice(device)
       /\ UNCHANGED <<provVars, histVars, extVars, reloadTimers, notif>>
       /\ UNCHANGED <<store, nextId, cache, isRunning, reloadTimer, timers,
                      deviceStartupDelay, intervalTimers, timeouts>>

\* a waiting invocation wakes from its 500 ms sleep and finds a free slot
AdmitWaiting ==
  \E p \in BagToSet(polls) :
    /\ p.pc = "waiting"
    /\ ~MustWait(activeMonitoringCount)
    /\ LET r == Admit(p, polls (-) One(p))
       IN /\ polls' = r.polls
          /\ activeMonitoringCount' = r.count
          /\ SetEnded(r.ended, p, "skipped")
    /\ UNCHANGED <<provVars, histVars, extVars, reloadTimers, notif>>
    /\ UNCHANGED <<store, nextId, cache, isRunning, reloadTimer, timers,
                   deviceStartupDelay, intervalTimers, timeouts>>

\* monitorWithRetry: maxAttempts
maxAttempts(device) == OrNum(device.retryAttempts, DefaultRetryAttempts)

\* monitorWithRetry: lastError after an attempt that ended with outcome o
lastErrorOf(o) == IF o.thrown THEN o.error ELSE OrStr(o.error, "Unknown error")

\* the loop bound with one attempt too many
HasNextAttempt_inclusive(attempt, device) == attempt <= maxAttempts(device)

\* monitorWithRetry: does the loop go on to another attempt after this one
HasNextAttempt(attempt, device) == attempt < maxAttempts(device)

\* monitorWithRetry: the result returned when all attempts failed
FailedResult(lastError) ==
  [success |-> FALSE, error |-> OrStr(lastError, "All retry attempts failed")]

\* the collaborator calls of monitorDevice once it has a result, in call order
CacheCall(id, status) ==
  [op |-> "cache", id |-> id, device |-> NoDevice, status |-> status, error |-> ""]
NotifyCall(device, result) ==
  [op |-> "notify", id |-> device.id, device |-> device,
   status |-> IF result.success THEN "success" ELSE "failure", error |-> result.error]

\* the two calls in the other order
Forward_notifyFirst(p, result) ==
  << NotifyCall(p.currentDevice, result),
     CacheCall(p.currentDevice.id, IF result.success THEN "online" ELSE "offline") >>

\* the notification handed the object the caller passed in
Forward_captured(p, result) ==
  << CacheCall(p.currentDevice.id, IF result.success THEN "online" ELSE "offline"),
     NotifyCall(p.device, result) >>

Forward(p, result) ==
  << CacheCall(p.currentDevice.id, IF result.success THEN "online" ELSE "offline"),
     NotifyCall(p.currentDevice, result) >>

\* db.updateMonitoringCache for the cache calls of a call list, in order
RECURSIVE ApplyCalls(_, _, _)
ApplyCalls(c, calls, i) ==
  IF i > Len(calls) THEN c
  ELSE ApplyCalls(IF calls[i].op = "cache"
                  THEN [c EXCEPT ![calls[i].id] = calls[i].status] ELSE c,
                  calls, i + 1)

\* monitorDevice after "await this.monitorWithRetry(currentDevice)" returned
\* result, up to "await this.notificationService.processMonitoringResult"
Deliver(p, o, result) ==
  LET calls == Forward(p, result)
  IN /\ cache' = ApplyCalls(cache, calls, 1)
     /\ polls' = (polls (-) One(p)) (+)
                 One([p EXCEPT !.pc = "notifying", !.result = result,
                               !.seen = Append(p.seen, o),
                               !.calls = p.calls \o calls])

\* the loop going on after a successful attempt while attempts remain
ExtractorCompletes_retriesAfterSuccess(outcomes) ==
  \E p \in BagToSet(polls) : \E o \in outcomes :
    /\ p.pc = "extracting"
    /\ IF HasNextAttempt(p.attempt, p.currentDevice)
       THEN /\ polls' = (polls (-) One(p)) (+)
                        One([p EXCEPT !.pc = "retryDelay",
                                      !.seen = Append(p.seen, o),
                                      !.lastError = lastErrorOf(o)])
            /\ UNCHANGED cache
       ELSE IF ~o.thrown /\ o.success
            THEN Deliver(p, o, [success |-> TRUE, error |-> ""])
            ELSE Deliver(p, o, FailedResult(lastErrorOf(o)))
    /\ UNCHANGED <<provVars, histVars, extVars, auxVars>>
    /\ UNCHANGED <<store, nextId, isRunning, reloadTimer, timers, deviceStartupDelay,
                   activeMonitoringCount, intervalTimers, timeouts>>

\* the next attempt started at once, without the wait
ExtractorCompletes_noDelay(outcomes) ==
  \E p \in BagToSet(polls) : \E o \in outcomes :
    /\ p.pc = "extracting"
    /\ IF ~o.thrown /\ o.success
       THEN Deliver(p, o, [success |-> TRUE, error |-> ""])
       ELSE IF HasNextAttempt(p.attempt, p.currentDevice)
            THEN /\ polls' = (polls (-) One(p)) (+)
                             One([p EXCEPT !.attempt = p.attempt + 1,
                                           !.seen = Append(p.seen, o),
                                           !.lastError = lastErrorOf(o)])
                 /\ UNCHANGED cache
            ELSE Deliver(p, o, FailedResult(lastErrorOf(o)))
    /\ UNCHANGED <<provVars, histVars, extVars, auxVars>>
    /\ UNCHANGED <<store, nextId, isRunning, reloadTimer, timers, deviceStartupDelay,
                   activeMonitoringCount, intervalTimers, timeouts>>

\* the extractor call of the current attempt completes with outcome o
ExtractorCompletes(outcomes) ==
  \E p \in BagToSet(polls) : \E o \in outcomes :
    /\ p.pc = "extracting"
    /\ IF ~o.thrown /\ o.success
       THEN Deliver(p, o, [success |-> TRUE, error |-> ""])
       ELSE IF HasNextAttempt(p.attempt, p.currentDevice)
            THEN /\ polls' = (polls (-) One(p)) (+)
                             One([p EXCEPT !.pc = "retryDelay",
                                           !.seen = Append(p.seen, o),
                                           !.lastError = lastErrorOf(o)])
                 /\ UNCHANGED cache
            ELSE Deliver(p, o, FailedResult(lastErrorOf(o)))
    /\ UNCHANGED <<provVars, histVars, extVars, auxVars>>
    /\ UNCHANGED <<store, nextId, isRunning, reloadTimer, timers, deviceStartupDelay,
                   activeMonitoringCount, intervalTimers, timeouts>>

\* the retry delay of monitorWithRetry elapses and the next attempt starts
RetryDelayElapses ==
  \E p \in BagToSet(polls) :
    /\ p.pc = "retryDelay"
    /\ polls' = (polls (-) One(p)) (+)
                One([p EXCEPT !.pc = "extracting", !.attempt = p.attempt + 1])
    /\ UNCHANGED <<provVars, histVars, extVars, auxVars>>
    /\ UNCHANGED <<store, nextId, cache, isRunning, reloadTimer, timers,
                   deviceStartupDelay, activeMonitoringCount, intervalTimers, timeouts>>

\* processMonitoringResult returns or throws; the catch block of monitorDevice
\* writes the 'error' status, the finally block gives the slot back
NotificationCompletes(thrown) ==
  \E p \in BagToSet(polls) : \E t \in thrown :
    /\ p.pc = "notifying"
    /\ cache' = IF t THEN ApplyCalls(cache, <<CacheCall(p.device.id, "error")>>, 1)
                ELSE cache
    /\ polls' = polls (-) One(p)
    /\ activeMonitoringCount' = activeMonitoringCount - 1
    /\ SetEnded(TRUE,
                [p EXCEPT !.calls = IF t THEN @ \o <<CacheCall(p.device.id, "error")>>
                                    ELSE @],
                IF t THEN "thrown" ELSE "returned")
    /\ UNCHANGED <<provVars, histVars, extVars, reloadTimers, notif>>
    /\ UNCHANGED <<store, nextId, isRunning, reloadTimer, timers, deviceStartupDelay,
                   intervalTimers, timeouts>>

\* ------------------------------------------------------------------------
\* Routes that change the device table
\* ------------------------------------------------------------------------
\* POST /api/devices: INSERT with an AUTOINCREMENT id
AddDevice(maxId, settings) ==
  \E config \in settings :
    /\ nextId <= maxId
    /\ store' = [store EXCEPT ![nextId] = RowOf(nextId, config)]
    /\ nextId' = nextId + 1
    /\ UNCHANGED <<provVars, histVars, extVars, auxVars>>
    /\ UNCHANGED <<cache, isRunning, reloadTimer, timers, deviceStartupDelay,
                   activeMonitoringCount, intervalTimers, timeouts, polls>>

\* PUT /api/devices/:id
UpdateDevice(settings) ==
  \E id \in DeviceIds : \E config \in settings :
    /\ store[id] # NoDevice
    /\ store' = [store EXCEPT ![id] = RowOf(id, config)]
    /\ UNCHANGED <<provVars, histVars, extVars, auxVars>>
    /\ UNCHANGED <<nextId, cache, isRunning, reloadTimer, timers, deviceStartupDelay,
                   activeMonitoringCount, intervalTimers, timeouts, polls>>

\* DELETE /api/devices/:id; the cache row goes with it (ON DELETE CASCADE)
DeleteDevice ==
  \E d \in DeviceIds :
    /\ store[d] # NoDevice
    /\ store' = [store EXCEPT ![d] = NoDevice]
    /\ cache' = [cache EXCEPT ![d] = "none"]
    /\ UNCHANGED <<provVars, histVars, extVars, auxVars>>
    /\ UNCHANGED <<nextId, isRunning, reloadTimer, timers, deviceStartupDelay,
                   activeMonitoringCount, intervalTimers, timeouts, polls>>

\* ------------------------------------------------------------------------
\* Text: a string is the sequence of its characters
\* ------------------------------------------------------------------------
DigitChars == <<"0", "1", "2", "3", "4", "5", "6", "7", "8", "9">>

\* Number.prototype.toString() of a non-negative integer
RECURSIVE toString(_)
toString(n) ==
  IF n < 10 THEN <<DigitChars[n + 1]>>
  ELSE toString(n \div 10) \o <<DigitChars[(n % 10) + 1]>>

\* String.prototype.includes
includes(text, part) ==
  \E i \in 1..(Len(text) - Len(part) + 1) : SubSeq(text, i, i + Len(part) - 1) = part

\* String.prototype.split for a separator of one character
RECURSIVE split(_, _)
split(text, sep) ==
  IF \A i \in 1..Len(text) : text[i] # sep THEN <<text>>
  ELSE LET i == CHOOSE j \in 1..Len(text) :
                  text[j] = sep /\ \A k \in 1..(j - 1) : text[k] # sep
       IN <<SubSeq(text, 1, i - 1)>> \o split(SubSeq(text, i + 1, Len(text)), sep)

\* Array.prototype.join, and the concatenation a template literal makes
RECURSIVE join(_, _)
join(parts, sep) ==
  IF Len(parts) = 0 THEN << >>
  ELSE IF Len(parts) = 1 THEN parts[1]
  ELSE parts[1] \o sep \o join(Tail(parts), sep)

\* the dotted quad a request carries for the octets a, b, c, d
IP(a, b, c, d) == join(<<toString(a), toString(b), toString(c), toString(d)>>, <<".">>)

\* ------------------------------------------------------------------------
\* The control router (RouterOS) as the reconciler's commands see it
\* ------------------------------------------------------------------------
\* mikrotik_control_config: the row the reconciler reads
controlConfig ==
  [control_ip |-> IP(10, 0, 9, 1),
   lhg60g_ethernet_interface |-> <<"e", "t", "h", "e", "r", "2">>]
OtherInterface == <<"e", "t", "h", "e", "r", "3">>

Slash24 == <<"/", "2", "4">>
Space == <<" ">>
Newline == <<"\n">>

\* the NETWORK column of an address entry
NetworkOf(address) ==
  LET parts == split(split(address, "/")[1], ".")
  IN join(<<parts[1], parts[2], parts[3], <<"0">>>>, <<".">>)

RECURSIVE AddressLines(_, _)
AddressLines(entries, i) ==
  IF i > Len(entries) THEN << >>
  ELSE <<toString(i - 1) \o Space \o entries[i].address \o Space
           \o NetworkOf(entries[i].address) \o Space \o entries[i].interface>>
       \o AddressLines(entries, i + 1)

\* stdout of /ip address print where interface="..."
AddressPrint(gw, interfaceName) ==
  join(<< <<"#", " ", "A", "D", "D", "R", "E", "S", "S">> >>
         \o AddressLines(SelectSeq(gw.addresses,
                                   LAMBDA a : a.interface = interfaceName), 1),
       Newline)

RECURSIVE NatLines(_, _)
NatLines(rules, i) ==
  IF i > Len(rules) THEN << >>
  ELSE <<toString(i - 1) \o Space \o rules[i].comment
           \o <<" ", "d", "s", "t", "=">> \o rules[i].dstAddress
           \o <<" ", "p", "o", "r", "t", "=">> \o rules[i].dstPort
           \o <<" ", "t", "o", "=">> \o rules[i].toAddresses
           \o <<" ", "t", "o", "-", "p", "o", "r", "t", "s", "=", "2", "2">> >>
       \o NatLines(rules, i + 1)

\* stdout of /ip firewall nat print where dst-port=...
NatPrint(gw, port) ==
  join(<< <<"F", "l", "a", "g", "s">> >>
         \o NatLines(SelectSeq(gw.nat, LAMBDA r : r.dstPort = port), 1),
       Newline)

\* /ip address add address=... interface=...
AddressAdd(gw, address, interfaceName) ==
  [gw EXCEPT !.addresses = Append(@, [address |-> address, interface |-> interfaceName])]

\* /ip firewall nat add ... comment dst-address dst-port to-addresses
NatAdd(gw, comment, dstAddress, dstPort, toAddresses) ==
  [gw EXCEPT !.nat = Append(@, [comment |-> comment, dstAddress |-> dstAddress,
                                dstPort |-> dstPort, toAddresses |-> toAddresses])]

\* a removal that takes the first rule found only
NatRemove_first(gw, dstPort, toAddresses) ==
  LET found == {i \in 1..Len(gw.nat) :
                  gw.nat[i].dstPort = dstPort /\ gw.nat[i].toAddresses = toAddresses}
  IN IF found = {} THEN gw
     ELSE LET first == CHOOSE i \in found : \A j \in found : i <= j
          IN [gw EXCEPT !.nat = SubSeq(@, 1, first - 1) \o SubSeq(@, first + 1, Len(@))]

\* /ip firewall nat remove [find where dst-port=... and to-addresses=...]
NatRemove(gw, dstPort, toAddresses) ==
  [gw EXCEPT !.nat = SelectSeq(@, LAMBDA r : ~(r.dstPort = dstPort
                                               /\ r.toAddresses = toAddresses))]

\* /ip address remove [find where address=... and interface=...]
AddressRemove(gw, address, interfaceName) ==
  [gw EXCEPT !.addresses = SelectSeq(@, LAMBDA a : ~(a.address = address
                                                     /\ a.interface = interfaceName))]

\* ------------------------------------------------------------------------
\* What a run of the reconciler meets: the configuration row, the SSH
\* session, and at most one command that is rejected, with its message
\* ------------------------------------------------------------------------
NoSuchItem == <<"n", "o", " ", "s", "u", "c", "h", " ", "i", "t", "e", "m">>
CommandTimeout == <<"t", "i", "m", "e", "o", "u", "t">>

Working == [config |-> TRUE, connect |-> TRUE, fault |-> "none", error |-> << >>]
NoConfig == [config |-> FALSE, connect |-> TRUE, fault |-> "none", error |-> << >>]
NoSession == [config |-> TRUE, connect |-> FALSE, fault |-> "none", error |-> << >>]
Fault(command, error) ==
  [config |-> TRUE, connect |-> TRUE, fault |-> command, error |-> error]
\* what the runs of provisionDevice meet, and those of deprovisionDevice
ProvisionEnvs ==
  {Working, NoConfig, NoSession}
  \cup {Fault(c, CommandTimeout) : c \in {"address print", "address add", "nat print", "nat add"}}
DeprovisionEnvs ==
  {Working, NoConfig, NoSession}
  \cup {Fault(c, e) : c \in {"nat remove", "address remove"}, e \in {NoSuchItem, CommandTimeout}}

\* executeCommand rejects
Rejected(env, command) == env.fault = command

\* what a run returns: the router after it, results.success, results.steps,
\* results.warnings, the commands it sent and whether the session was opened
Outcome(gw, success, steps, warnings, cmds, opened) ==
  [gateway |-> gw, success |-> success, steps |-> steps, warnings |-> warnings,
   cmds |-> cmds, opened |-> opened]

\* `${port}` of a template literal
PortText(port) ==
  IF port = 0 THEN <<"u", "n", "d", "e", "f", "i", "n", "e", "d">> ELSE toString(port)

\* ------------------------------------------------------------------------
\* MikroTikProvisioning
\* ------------------------------------------------------------------------
checkIPAssignment_wholeLine(gw, tunnelIP, interfaceName, env) ==
  IF Rejected(env, "address print") THEN FALSE
  ELSE LET lines == split(AddressPrint(gw, interfaceName), "\n")
       IN \E i \in 1..Len(lines) : lines[i] = tunnelIP

checkIPAssignment(gw, tunnelIP, interfaceName, env) ==
  IF Rejected(env, "address print") THEN FALSE
  ELSE LET lines == split(AddressPrint(gw, interfaceName), "\n")
       IN \E i \in 1..Len(lines) : includes(lines[i], tunnelIP)

addIPAddress(gw, tunnelIP, interfaceName) ==
  AddressAdd(gw, tunnelIP \o Slash24, interfaceName)

checkNATRule(gw, deviceConfig, env) ==
  IF Rejected(env, "nat print") THEN FALSE
  ELSE LET output == NatPrint(gw, PortText(deviceConfig.mikrotik_ssh_port))
       IN /\ includes(output, toString(deviceConfig.mikrotik_ssh_port))
          /\ includes(output, deviceConfig.mikrotik_lhg60g_ip)

addNATRule(gw, deviceConfig) ==
  NatAdd(gw, deviceConfig.name, controlConfig.control_ip,
         PortText(deviceConfig.mikrotik_ssh_port), deviceConfig.mikrotik_lhg60g_ip)

\* a reconciler that keeps the address listing of the call before
provisionDevice_cached(gw, deviceConfig, env) ==
  IF ~env.config THEN Outcome(gw, FALSE, <<"error">>, << >>, << >>, FALSE)
  ELSE IF ~env.connect THEN Outcome(gw, FALSE, <<"config", "error">>, << >>, << >>, FALSE)
  ELSE
    LET interfaceName == controlConfig.lhg60g_ethernet_interface
        cached == lastRun.op # "none"
        seen == IF cached THEN lastRun.before ELSE gw
        ipExists == checkIPAssignment(seen, deviceConfig.mikrotik_tunnel_ip, interfaceName, env)
        c1 == (IF cached THEN << >> ELSE <<"address print">>)
                \o (IF ipExists THEN << >> ELSE <<"address add">>)
        s1 == <<"config", "connected">>
    IN IF ~ipExists /\ Rejected(env, "address add")
       THEN Outcome(gw, FALSE, s1 \o <<"error">>, << >>, c1, TRUE)
       ELSE
         LET gw1 == IF ipExists THEN gw
                    ELSE addIPAddress(gw, deviceConfig.mikrotik_tunnel_ip, interfaceName)
             s2 == s1 \o <<IF ipExists THEN "ip exists" ELSE "ip added">>
             natExists == checkNATRule(gw1, deviceConfig, env)
             c2 == c1 \o <<"nat print">> \o (IF natExists THEN << >> ELSE <<"nat add">>)
         IN IF ~natExists /\ Rejected(env, "nat add")
            THEN Outcome(gw1, FALSE, s2 \o <<"error">>, << >>, c2, TRUE)
            ELSE Outcome(IF natExists THEN gw1 ELSE addNATRule(gw1, deviceConfig),
                         TRUE,
                         s2 \o <<IF natExists THEN "nat exists" ELSE "nat added">>,
                         << >>, c2, TRUE)

provisionDevice(gw, deviceConfig, env) ==
  IF ~env.config THEN Outcome(gw, FALSE, <<"error">>, << >>, << >>, FALSE)
  ELSE IF ~env.connect THEN Outcome(gw, FALSE, <<"config", "error">>, << >>, << >>, FALSE)
  ELSE
    LET interfaceName == controlConfig.lhg60g_ethernet_interface
        ipExists == checkIPAssignment(gw, deviceConfig.mikrotik_tunnel_ip, interfaceName, env)
        c1 == <<"address print">> \o (IF ipExists THEN << >> ELSE <<"address add">>)
        s1 == <<"config", "connected">>
    IN IF ~ipExists /\ Rejected(env, "address add")
       THEN Outcome(gw, FALSE, s1 \o <<"error">>, << >>, c1, TRUE)
       ELSE
         LET gw1 == IF ipExists THEN gw
                    ELSE addIPAddress(gw, deviceConfig.mikrotik_tunnel_ip, interfaceName)
             s2 == s1 \o <<IF ipExists THEN "ip exists" ELSE "ip added">>
             natExists == checkNATRule(gw1, deviceConfig, env)
             c2 == c1 \o <<"nat print">> \o (IF natExists THEN << >> ELSE <<"nat add">>)
         IN IF ~natExists /\ Rejected(env, "nat add")
            THEN Outcome(gw1, FALSE, s2 \o <<"error">>, << >>, c2, TRUE)
            ELSE Outcome(IF natExists THEN gw1 ELSE addNATRule(gw1, deviceConfig),
                         TRUE,
                         s2 \o <<IF natExists THEN "nat exists" ELSE "nat added">>,
                         << >>, c2, TRUE)

\* the catch rethrowing whatever the message
Swallowed_never(env) == FALSE

\* the catch of removeNATRule and of removeIPAddress
Swallowed(env) == includes(env.error, NoSuchItem)

removeNATRule(gw, deviceConfig) ==
  NatRemove(gw, PortText(deviceConfig.mikrotik_ssh_port), deviceConfig.mikrotik_lhg60g_ip)

removeIPAddress(gw, tunnelIP, interfaceName) ==
  AddressRemove(gw, tunnelIP \o Slash24, interfaceName)

SubnetOf(parts) == join(<<parts[1], parts[2], parts[3], <<"0">>>>, <<".">>)

checkSubnetUsage_twoOctets(tunnelIP, remainingDevices) ==
  LET parts == split(tunnelIP, ".")
  IN IF Len(parts) # 4 THEN FALSE
     ELSE \E i \in 1..Len(remainingDevices) :
            LET device == remainingDevices[i]
                deviceParts == split(device.mikrotik_lhg60g_ip, ".")
            IN /\ device.device_type = "mikrotik_lhg60g"
               /\ device.mikrotik_lhg60g_ip # << >>
               /\ Len(deviceParts) = 4
               /\ join(<<deviceParts[1], deviceParts[2]>>, <<".">>)
                    = join(<<parts[1], parts[2]>>, <<".">>)

checkSubnetUsage_tunnel(tunnelIP, remainingDevices) ==
  LET parts == split(tunnelIP, ".")
  IN IF Len(parts) # 4 THEN FALSE
     ELSE \E i \in 1..Len(remainingDevices) :
            LET device == remainingDevices[i]
                deviceParts == split(device.mikrotik_tunnel_ip, ".")
            IN /\ device.device_type = "mikrotik_lhg60g"
               /\ device.mikrotik_tunnel_ip # << >>
               /\ Len(deviceParts) = 4
               /\ SubnetOf(deviceParts) = SubnetOf(parts)

checkSubnetUsage(tunnelIP, remainingDevices) ==
  LET parts == split(tunnelIP, ".")
  IN IF Len(parts) # 4 THEN FALSE
     ELSE \E i \in 1..Len(remainingDevices) :
            LET device == remainingDevices[i]
                deviceParts == split(device.mikrotik_lhg60g_ip, ".")
            IN /\ device.device_type = "mikrotik_lhg60g"
               /\ device.mikrotik_lhg60g_ip # << >>
               /\ Len(deviceParts) = 4
               /\ SubnetOf(deviceParts) = SubnetOf(parts)

\* the outer catch reporting the failure
deprovisionDevice_failsClosed(gw, deviceConfig, remainingDevices, env) ==
  IF ~env.config THEN Outcome(gw, TRUE, << >>, <<"no config">>, << >>, FALSE)
  ELSE IF ~env.connect
  THEN Outcome(gw, FALSE, <<"config">>, <<"cleanup error">>, << >>, FALSE)
  ELSE
    LET interfaceName == controlConfig.lhg60g_ethernet_interface
        natFailed == Rejected(env, "nat remove") /\ ~Swallowed(env)
        gw1 == IF Rejected(env, "nat remove") THEN gw ELSE removeNATRule(gw, deviceConfig)
        s1 == <<"config", "connected">> \o (IF natFailed THEN << >> ELSE <<"nat removed">>)
        w1 == IF natFailed THEN <<"nat remove failed">> ELSE << >>
        c1 == <<"nat remove">>
    IN IF deviceConfig.mikrotik_tunnel_ip = << >>
       \* tunnelIP.split on a row without a tunnel IP throws into the outer catch
       THEN Outcome(gw1, TRUE, s1, w1 \o <<"cleanup error">>, c1, TRUE)
       ELSE IF checkSubnetUsage(deviceConfig.mikrotik_tunnel_ip, remainingDevices)
       THEN Outcome(gw1, TRUE, s1 \o <<"ip preserved">>, w1, c1, TRUE)
       ELSE
         LET ipFailed == Rejected(env, "address remove") /\ ~Swallowed(env)
             gw2 == IF Rejected(env, "address remove") THEN gw1
                    ELSE removeIPAddress(gw1, deviceConfig.mikrotik_tunnel_ip, interfaceName)
         IN Outcome(gw2, TRUE,
                    s1 \o (IF ipFailed THEN << >> ELSE <<"ip removed">>),
                    w1 \o (IF ipFailed THEN <<"ip remove failed">> ELSE << >>),
                    c1 \o <<"address remove">>, TRUE)

deprovisionDevice(gw, deviceConfig, remainingDevices, env) ==
  IF ~env.config THEN Outcome(gw, TRUE, << >>, <<"no config">>, << >>, FALSE)
  ELSE IF ~env.connect
  THEN Outcome(gw, TRUE, <<"config">>, <<"cleanup error">>, << >>, FALSE)
  ELSE
    LET interfaceName == controlConfig.lhg60g_ethernet_interface
        natFailed == Rejected(env, "nat remove") /\ ~Swallowed(env)
        gw1 == IF Rejected(env, "nat remove") THEN gw ELSE removeNATRule(gw, deviceConfig)
        s1 == <<"config", "connected">> \o (IF natFailed THEN << >> ELSE <<"nat removed">>)
        w1 == IF natFailed THEN <<"nat remove failed">> ELSE << >>
        c1 == <<"nat remove">>
    IN IF deviceConfig.mikrotik_tunnel_ip = << >>
       \* tunnelIP.split on a row without a tunnel IP throws into the outer catch
       THEN Outcome(gw1, TRUE, s1, w1 \o <<"cleanup error">>, c1, TRUE)
       ELSE IF checkSubnetUsage(deviceConfig.mikrotik_tunnel_ip, remainingDevices)
       THEN Outcome(gw1, TRUE, s1 \o <<"ip preserved">>, w1, c1, TRUE)
       ELSE
         LET ipFailed == Rejected(env, "address remove") /\ ~Swallowed(env)
             gw2 == IF Rejected(env, "address remove") THEN gw1
                    ELSE removeIPAddress(gw1, deviceConfig.mikrotik_tunnel_ip, interfaceName)
         IN Outcome(gw2, TRUE,
                    s1 \o (IF ipFailed THEN << >> ELSE <<"ip removed">>),
                    w1 \o (IF ipFailed THEN <<"ip remove failed">> ELSE << >>),
                    c1 \o <<"address remove">>, TRUE)

\* ------------------------------------------------------------------------
\* Routes of the gateway-reachable devices
\* ------------------------------------------------------------------------
\* the request bodies of POST /api/mikrotik/devices that are followed
Body(name, tunnelIP, lhg60gIP, sshPort) ==
  [name |-> name, tunnelIP |-> tunnelIP, lhg60gIP |-> lhg60gIP, sshPort |-> sshPort]
Bodies ==
  {Body(<<"a">>, IP(10, 0, 1, 1), IP(10, 0, 1, 5), 60001),
   Body(<<"b">>, IP(10, 0, 1, 1), IP(10, 0, 2, 5), 60002),
   Body(<<"c">>, IP(10, 0, 2, 1), IP(10, 0, 1, 6), 60002),
   Body(<<"d">>, IP(10, 0, 1, 11), IP(10, 0, 1, 7), 60001)}

\* the row addMikroTikDevice writes, as getDeviceWithCredentials and
\* getAllONUDevices hand it to the reconciler
MkRowOf(id, body) ==
  [id |-> id, monitoringInterval |-> DefaultInterval,
   retryAttempts |-> DefaultRetryAttempts, device_type |-> "mikrotik_lhg60g",
   name |-> body.name, mikrotik_tunnel_ip |-> body.tunnelIP,
   mikrotik_lhg60g_ip |-> body.lhg60gIP, mikrotik_ssh_port |-> body.sshPort]

EmptyGateway == [addresses |-> << >>, nat |-> << >>]

NoRun ==
  [op |-> "none", device |-> NoDevice, remaining |-> << >>, env |-> Working,
   before |-> EmptyGateway, success |-> FALSE, steps |-> << >>, warnings |-> << >>,
   cmds |-> << >>, opened |-> FALSE]

Run(op, device, remaining, env, before, out) ==
  [op |-> op, device |-> device, remaining |-> remaining, env |-> env,
   before |-> before, success |-> out.success, steps |-> out.steps,
   warnings |-> out.warnings, cmds |-> out.cmds, opened |-> out.opened]

\* res.status(...).json(...)
Response(status, success) == [status |-> status, success |-> success]
NoResponse == Response(0, FALSE)

\* POST /api/mikrotik/devices; the gateway calls of one run are taken
\* without another run in between
AddMikroTikDevice(maxId, envs) ==
  \E body \in Bodies : \E env \in envs :
    /\ nextId <= maxId
    /\ body.name # << >> /\ body.lhg60gIP # << >> /\ body.sshPort # 0
    /\ body.tunnelIP # << >>
    /\ LET device == MkRowOf(nextId, body)
           out == provisionDevice(gateway, device, env)
       IN /\ store' = [store EXCEPT ![nextId] = device]
          /\ nextId' = nextId + 1
          /\ gateway' = out.gateway
          /\ prevRun' = lastRun
          /\ lastRun' = Run("provision", device, << >>, env, gateway, out)
          /\ lastResponse' = Response(200, TRUE)
    /\ UNCHANGED <<histVars, extVars, auxVars>>
    /\ UNCHANGED <<cache, isRunning, reloadTimer, timers, deviceStartupDelay,
                   activeMonitoringCount, intervalTimers, timeouts, polls>>

\* a route that removes the record only after a cleanup without warnings
DeleteMikroTikDevice_cleanupFirst(envs) ==
  \E id \in DeviceIds :
    IF getDeviceWithCredentials(id) = NoDevice
    THEN /\ lastResponse' = Response(404, FALSE)
         /\ UNCHANGED <<schedVars, histVars, extVars, auxVars, gateway, lastRun, prevRun>>
    ELSE \E env \in envs :
      /\ LET device == getDeviceWithCredentials(id)
             allDevices == getAllONUDevices
             remainingDevices == SelectSeq(allDevices, LAMBDA d : d.id # id)
             out == deprovisionDevice(gateway, device, remainingDevices, env)
             clean == out.warnings = << >>
         IN /\ store' = IF clean THEN [store EXCEPT ![id] = NoDevice] ELSE store
            /\ cache' = IF clean THEN [cache EXCEPT ![id] = "none"] ELSE cache
            /\ gateway' = out.gateway
            /\ prevRun' = lastRun
            /\ lastRun' = Run("deprovision", device, remainingDevices, env, gateway, out)
            /\ lastResponse' = IF clean THEN Response(200, TRUE) ELSE Response(500, FALSE)
      /\ UNCHANGED <<histVars, extVars, auxVars>>
      /\ UNCHANGED <<nextId, isRunning, reloadTimer, timers, deviceStartupDelay,
                     activeMonitoringCount, intervalTimers, timeouts, polls>>

\* DELETE /api/mikrotik/devices/:id
DeleteMikroTikDevice(envs) ==
  \E id \in DeviceIds :
    IF getDeviceWithCredentials(id) = NoDevice
    THEN /\ lastResponse' = Response(404, FALSE)
         /\ UNCHANGED <<schedVars, histVars, extVars, auxVars, gateway, lastRun, prevRun>>
    ELSE \E env \in envs :
      /\ LET device == getDeviceWithCredentials(id)
             allDevices == getAllONUDevices
             remainingDevices == SelectSeq(allDevices, LAMBDA d : d.id # id)
             out == deprovisionDevice(gateway, device, remainingDevices, env)
         IN /\ store' = [store EXCEPT ![id] = NoDevice]
            /\ cache' = [cache EXCEPT ![id] = "none"]
            /\ gateway' = out.gateway
            /\ prevRun' = lastRun
            /\ lastRun' = Run("deprovision", device, remainingDevices, env, gateway, out)
            /\ lastResponse' = Response(200, TRUE)
      /\ UNCHANGED <<histVars, extVars, auxVars>>
      /\ UNCHANGED <<nextId, isRunning, reloadTimer, timers, deviceStartupDelay,
                     activeMonitoringCount, intervalTimers, timeouts, polls>>

\* ------------------------------------------------------------------------
\* MikroTikProvisioning, one gateway command at a time: each await of
\* provisionDevice and deprovisionDevice is a point where another call, or a
\* timer of the scheduler, may run
\* ------------------------------------------------------------------------
RunIds == 1..2

\* a call of provisionDevice or deprovisionDevice suspended at an await; pc
\* names the command it waits for, before is the router when it was called,
\* request tells that POST /api/mikrotik/devices awaits it
Idle ==
  [op |-> "none", pc |-> "idle", device |-> NoDevice, remaining |-> << >>,
   before |-> EmptyGateway, success |-> FALSE, steps |-> << >>, warnings |-> << >>,
   request |-> FALSE]

\* the call up to "await this.sshManager.connectToControlRouter(controlConfig)"
Called(op, device, remaining, before, request) ==
  [op |-> op, pc |-> "connect", device |-> device, remaining |-> remaining,
   before |-> before, success |-> FALSE, steps |-> <<"config">>, warnings |-> << >>,
   request |-> request]

Step(gw, run) == [gateway |-> gw, run |-> run]

\* the call from the await that has just been answered to its next await, or
\* to its return: the router after it and the call after it
Resume(gw, run) ==
  LET interfaceName == controlConfig.lhg60g_ethernet_interface
      tunnelIP == run.device.mikrotik_tunnel_ip
  IN CASE run.pc = "connect" ->
            Step(gw, [run EXCEPT !.steps = @ \o <<"connected">>,
                                 !.pc = IF run.op = "provision" THEN "address print"
                                        ELSE "nat remove"])
       [] run.pc = "address print" ->
            IF checkIPAssignment(gw, tunnelIP, interfaceName, Working)
            THEN Step(gw, [run EXCEPT !.steps = @ \o <<"ip exists">>, !.pc = "nat print"])
            ELSE Step(gw, [run EXCEPT !.pc = "address add"])
       [] run.pc = "address add" ->
            Step(addIPAddress(gw, tunnelIP, interfaceName),
                 [run EXCEPT !.steps = @ \o <<"ip added">>, !.pc = "nat print"])
       [] run.pc = "nat print" ->
            IF checkNATRule(gw, run.device, Working)
            THEN Step(gw, [run EXCEPT !.steps = @ \o <<"nat exists">>, !.success = TRUE,
                                      !.pc = "done"])
            ELSE Step(gw, [run EXCEPT !.pc = "nat add"])
       [] run.pc = "nat add" ->
            Step(addNATRule(gw, run.device),
                 [run EXCEPT !.steps = @ \o <<"nat added">>, !.success = TRUE,
                             !.pc = "done"])
       [] run.pc = "nat remove" ->
            IF checkSubnetUsage(tunnelIP, run.remaining)
            THEN Step(removeNATRule(gw, run.device),
                      [run EXCEPT !.steps = @ \o <<"nat removed", "ip preserved">>,
                                  !.success = TRUE, !.pc = "done"])
            ELSE Step(removeNATRule(gw, run.device),
                      [run EXCEPT !.steps = @ \o <<"nat removed">>,
                                  !.pc = "address remove"])
       [] run.pc = "address remove" ->
            Step(removeIPAddress(gw, tunnelIP, interfaceName),
                 [run EXCEPT !.steps = @ \o <<"ip removed">>, !.success = TRUE,
                             !.pc = "done"])

\* the control router answers the command the call r waits for
Resumes(r) ==
  /\ LET next == Resume(gateway, runs[r])
     IN /\ gateway' = next.gateway
        /\ runs' = [runs EXCEPT ![r] = next.run]
  /\ UNCHANGED <<schedVars, histVars, lastCall, ops, auxVars, lastRun, prevRun, lastResponse>>

\* connectToControlRouter resolves
Connected(r) ==
  /\ runs[r].pc = "connect"
  /\ Resumes(r)

\* /ip address print answered to checkIPAssignment
AddressPrinted(r) ==
  /\ runs[r].pc = "address print"
  /\ Resumes(r)

\* /ip address add answered to addIPAddress
AddressAdded(r) ==
  /\ runs[r].pc = "address add"
  /\ Resumes(r)

\* /ip firewall nat print answered to checkNATRule
NatPrinted(r) ==
  /\ runs[r].pc = "nat print"
  /\ Resumes(r)

\* /ip firewall nat add answered to addNATRule
NatAdded(r) ==
  /\ runs[r].pc = "nat add"
  /\ Resumes(r)

\* /ip firewall nat remove answered to removeNATRule
NatRemoved(r) ==
  /\ runs[r].pc = "nat remove"
  /\ Resumes(r)

\* /ip address remove answered to removeIPAddress
AddressRemoved(r) ==
  /\ runs[r].pc = "address remove"
  /\ Resumes(r)

\* POST /api/mikrotik/devices up to "await mikrotikProvisioning
\* .provisionDevice(device)": the row is written, the call is under way
PostMikroTikDevice(maxId, bodies) ==
  \E body \in bodies : \E r \in RunIds :
    /\ nextId <= maxId
    /\ body.name # << >> /\ body.lhg60gIP # << >> /\ body.sshPort # 0
    /\ body.tunnelIP # << >>
    /\ runs[r].pc = "idle"
    /\ \A q \in RunIds : q < r => runs[q].pc # "idle"
    /\ LET device == MkRowOf(nextId, body)
       IN /\ store' = [store EXCEPT ![nextId] = device]
          /\ nextId' = nextId + 1
          /\ runs' = [runs EXCEPT ![r] = Called("provision", device, << >>, gateway, TRUE)]
    /\ UNCHANGED <<provVars, histVars, lastCall, ops, auxVars>>
    /\ UNCHANGED <<cache, isRunning, reloadTimer, timers, deviceStartupDelay,
                   activeMonitoringCount, intervalTimers, timeouts, polls>>

\* the rest of the route: provisionDevice has returned, res.json({ success: true, ... })
PostMikroTikDeviceAnswers(r) ==
  /\ runs[r].request
  /\ runs[r].pc = "done"
  /\ runs' = [runs EXCEPT ![r] = Idle]
  /\ lastResponse' = Response(200, TRUE)
  /\ UNCHANGED <<schedVars, histVars, lastCall, ops, auxVars, gateway, lastRun, prevRun>>

\* ------------------------------------------------------------------------
\* Text scanning, as the regular expressions of the parsers do it
\* ------------------------------------------------------------------------
Letters ==
  <<"a", "b", "c", "d", "e", "f", "g", "h", "i", "j", "k", "l", "m",
    "n", "o", "p", "q", "r", "s", "t", "u", "v", "w", "x", "y", "z">>
Capitals ==
  <<"A", "B", "C", "D", "E", "F", "G", "H", "I", "J", "K", "L", "M",
    "N", "O", "P", "Q", "R", "S", "T", "U", "V", "W", "X", "Y", "Z">>

\* String.prototype.toLowerCase, and the i flag, for one character
toLowerCase(c) ==
  IF \E i \in 1..26 : Capitals[i] = c
  THEN Letters[CHOOSE i \in 1..26 : Capitals[i] = c]
  ELSE c

\* \s and \d
IsSpace(c) == c \in {" ", "\n", "\t", "\r"}
IsDigit(c) == \E i \in 1..10 : DigitChars[i] = c
DigitValue(c) == (CHOOSE i \in 1..10 : DigitChars[i] = c) - 1

\* the index after the longest run of \s (of \d) that starts at i
RECURSIVE SkipSpaces(_, _)
SkipSpaces(text, i) ==
  IF i <= Len(text) /\ IsSpace(text[i]) THEN SkipSpaces(text, i + 1) ELSE i
RECURSIVE SkipDigits(_, _)
SkipDigits(text, i) ==
  IF i <= Len(text) /\ IsDigit(text[i]) THEN SkipDigits(text, i + 1) ELSE i

\* the literal characters of a pattern found at i
LiteralAt(text, i, literal, ignoreCase) ==
  /\ i >= 1
  /\ i + Len(literal) - 1 <= Len(text)
  /\ \A k \in 1..Len(literal) :
       IF ignoreCase THEN toLowerCase(text[i + k - 1]) = toLowerCase(literal[k])
       ELSE text[i + k - 1] = literal[k]

\* parseInt of a run of digits
RECURSIVE NumberOf(_)
NumberOf(digits) ==
  IF Len(digits) = 0 THEN 0
  ELSE 10 * NumberOf(SubSeq(digits, 1, Len(digits) - 1)) + DigitValue(digits[Len(digits)])

\* a number or null
Null == [present |-> FALSE, value |-> 0]
Some(n) == [present |-> TRUE, value |-> n]

\* ------------------------------------------------------------------------
\* MikroTikMonitor
\* ------------------------------------------------------------------------
NoMatch == [found |-> FALSE, number |-> << >>, unit |-> << >>]

\* /rssi:\s*(-?\d+)/ tried at i
RssiMatchAt(output, i) ==
  IF ~LiteralAt(output, i, <<"r", "s", "s", "i", ":">>, FALSE) THEN NoMatch
  ELSE LET a == SkipSpaces(output, i + 5)
           b == IF a <= Len(output) /\ output[a] = "-" THEN a + 1 ELSE a
           c == SkipDigits(output, b)
       IN IF c = b THEN NoMatch
          ELSE [found |-> TRUE, number |-> SubSeq(output, a, c - 1), unit |-> << >>]

parseRSSI(output) ==
  LET starts == {i \in 1..Len(output) : RssiMatchAt(output, i).found}
  IN IF starts = {} THEN Null
     ELSE LET first == CHOOSE i \in starts : \A j \in starts : i <= j
              text == RssiMatchAt(output, first).number
          IN IF text[1] = "-" THEN Some(0 - NumberOf(Tail(text)))
             ELSE Some(NumberOf(text))

\* /rate:\s*(\d+(?:\.\d+)?)\s*(Mbps|Gbps)/i tried at i
RateMatchAt(output, i) ==
  IF ~LiteralAt(output, i, <<"r", "a", "t", "e", ":">>, TRUE) THEN NoMatch
  ELSE LET a == SkipSpaces(output, i + 5)
           b == SkipDigits(output, a)
       IN IF b = a THEN NoMatch
          ELSE LET fraction == /\ b + 1 <= Len(output)
                               /\ output[b] = "."
                               /\ IsDigit(output[b + 1])
                   c == IF fraction THEN SkipDigits(output, b + 1) ELSE b
                   d == SkipSpaces(output, c)
               IN IF \/ LiteralAt(output, d, <<"M", "b", "p", "s">>, TRUE)
                     \/ LiteralAt(output, d, <<"G", "b", "p", "s">>, TRUE)
                  THEN [found |-> TRUE, number |-> SubSeq(output, a, c - 1),
                        unit |-> SubSeq(output, d, d + 3)]
                  ELSE NoMatch

\* parseFloat of the matched number, in thousandths (the numbers followed
\* have at most three decimals)
Thousandths(number) ==
  LET parts == split(number, ".")
      decimals == IF Len(parts) > 1 THEN parts[2] ELSE << >>
      padded == SubSeq(decimals \o <<"0", "0", "0">>, 1, 3)
  IN 1000 * NumberOf(parts[1]) + NumberOf(padded)

\* Math.round of a non-negative number given in thousandths
MathRound(thousandths) == (thousandths + 500) \div 1000

parsePortSpeed_unitBlind(output) ==
  LET starts == {i \in 1..Len(output) : RateMatchAt(output, i).found}
  IN IF starts = {} THEN Null
     ELSE LET speedMatch == RateMatchAt(output, CHOOSE i \in starts : \A j \in starts : i <= j)
              value == Thousandths(speedMatch.number)
          IN Some(MathRound(value))

parsePortSpeed(output) ==
  LET starts == {i \in 1..Len(output) : RateMatchAt(output, i).found}
  IN IF starts = {} THEN Null
     ELSE LET speedMatch == RateMatchAt(output, CHOOSE i \in starts : \A j \in starts : i <= j)
              value == Thousandths(speedMatch.number)
              unit == [k \in 1..4 |-> toLowerCase(speedMatch.unit[k])]
          IN IF unit = <<"g", "b", "p", "s">>
             THEN Some(MathRound(value * 1000))
             ELSE Some(MathRound(value))

\* what executeOnLHG60G gave for one command: a rejection or its stdout
Answered(stdout) == [rejected |-> FALSE, stdout |-> stdout]
RejectedCommand == [rejected |-> TRUE, stdout |-> << >>]

getRSSI(outcome) == IF outcome.rejected THEN Null ELSE parseRSSI(outcome.stdout)
getPortSpeed(outcome) == IF outcome.rejected THEN Null ELSE parsePortSpeed(outcome.stdout)

monitorMikroTik_strict(config, rssiOutcome, speedOutcome) ==
  IF ~config
  THEN [success |-> FALSE, error |-> "Control router configuration not found",
        rssi |-> Null, portSpeed |-> Null]
  ELSE LET rssi == getRSSI(rssiOutcome)
           portSpeed == getPortSpeed(speedOutcome)
       IN IF ~rssi.present \/ ~portSpeed.present
          THEN [success |-> FALSE, error |-> "Failed to retrieve monitoring data",
                rssi |-> Null, portSpeed |-> Null]
          ELSE [success |-> TRUE, error |-> "", rssi |-> rssi, portSpeed |-> portSpeed]

monitorMikroTik(config, rssiOutcome, speedOutcome) ==
  IF ~config
  THEN [success |-> FALSE, error |-> "Control router configuration not found",
        rssi |-> Null, portSpeed |-> Null]
  ELSE LET rssi == getRSSI(rssiOutcome)
           portSpeed == getPortSpeed(speedOutcome)
       IN IF ~rssi.present /\ ~portSpeed.present
          THEN [success |-> FALSE, error |-> "Failed to retrieve monitoring data",
                rssi |-> Null, portSpeed |-> Null]
          ELSE [success |-> TRUE, error |-> "", rssi |-> rssi, portSpeed |-> portSpeed]

\* ------------------------------------------------------------------------
\* onuMonitor: the optical parameters of the status page
\* ------------------------------------------------------------------------
\* the characters of the codes 32 to 57, the ones the values are made of
Ascii ==
  <<" ", "!", "\"", "#", "$", "%", "&", "'", "(", ")", "*", "+", ",", "-", ".", "/",
    "0", "1", "2", "3", "4", "5", "6", "7", "8", "9">>
HexChars ==
  <<"0", "1", "2", "3", "4", "5", "6", "7", "8", "9", "a", "b", "c", "d", "e", "f">>

\* [0-9A-Fa-f] and parseInt(hex, 16) of one character
IsHex(c) == \E i \in 1..16 : HexChars[i] = toLowerCase(c)
HexValue(c) == (CHOOSE i \in 1..16 : HexChars[i] = toLowerCase(c)) - 1

\* String.fromCharCode, for the codes of Ascii
fromCharCode(code) == IF code \in 32..57 THEN Ascii[code - 31] ELSE "?"

\* a decoder that reads the two characters as decimal digits
RECURSIVE decodeHexString_decimal(_)
decodeHexString_decimal(str) ==
  IF Len(str) = 0 THEN << >>
  ELSE IF /\ Len(str) >= 4
          /\ str[1] = "\\" /\ str[2] = "x"
          /\ IsHex(str[3]) /\ IsHex(str[4])
       THEN <<fromCharCode(10 * HexValue(str[3]) + HexValue(str[4]))>>
              \o decodeHexString_decimal(SubSeq(str, 5, Len(str)))
       ELSE <<str[1]>> \o decodeHexString_decimal(Tail(str))

\* str.replace(/\\x([0-9A-Fa-f]{2})/g, ...)
RECURSIVE decodeHexString(_)
decodeHexString(str) ==
  IF Len(str) = 0 THEN << >>
  ELSE IF /\ Len(str) >= 4
          /\ str[1] = "\\" /\ str[2] = "x"
          /\ IsHex(str[3]) /\ IsHex(str[4])
       THEN <<fromCharCode(16 * HexValue(str[3]) + HexValue(str[4]))>>
              \o decodeHexString(SubSeq(str, 5, Len(str)))
       ELSE <<str[1]>> \o decodeHexString(Tail(str))

detectUIType(value) == IF includes(value, <<"\\", "x">>) THEN "blue" ELSE "red"

\* String.prototype.trim
RECURSIVE trim(_)
trim(text) ==
  IF Len(text) = 0 THEN text
  ELSE IF IsSpace(text[1]) THEN trim(Tail(text))
  ELSE IF IsSpace(text[Len(text)]) THEN trim(SubSeq(text, 1, Len(text) - 1))
  ELSE text

\* a literal of the pattern found at i and the white space after it: the
\* index after both, or 0; need is "some" for \s+, "any" for \s*, "none"
After(text, i, literal, need) ==
  IF i = 0 \/ ~LiteralAt(text, i, literal, TRUE) THEN 0
  ELSE LET end == i + Len(literal)
           j == SkipSpaces(text, end)
       IN IF need = "none" THEN end
          ELSE IF need = "some" /\ j = end THEN 0
          ELSE j

\* the first index from i on where the character c stands, or 0
IndexFrom(text, i, c) ==
  LET found == {j \in i..Len(text) : text[j] = c}
  IN IF found = {} THEN 0 ELSE CHOOSE j \in found : \A k \in found : j <= k

\* /var\s+opticInfos\s*=\s*new\s+Array\(new\s+stOpticInfo\(([^)]+)\)/i
\* tried at i: the captured parameters, or no match
OpticMatchAt(html, i) ==
  LET a == After(html, i, <<"v", "a", "r">>, "some")
      b == After(html, a, <<"o", "p", "t", "i", "c", "I", "n", "f", "o", "s">>, "any")
      c == After(html, b, <<"=">>, "any")
      d == After(html, c, <<"n", "e", "w">>, "some")
      e == After(html, d, <<"A", "r", "r", "a", "y", "(", "n", "e", "w">>, "some")
      f == After(html, e, <<"s", "t", "O", "p", "t", "i", "c", "I", "n", "f", "o", "(">>,
                 "none")
      close == IF f = 0 THEN 0 ELSE IndexFrom(html, f, ")")
  IN IF f = 0 \/ close = 0 \/ close = f THEN [found |-> FALSE, params |-> << >>]
     ELSE [found |-> TRUE, params |-> SubSeq(html, f, close - 1)]

\* the loop over /"([^"]*)"/g
RECURSIVE QuotedValues(_, _)
QuotedValues(params, i) ==
  LET open == IndexFrom(params, i, "\"")
      shut == IF open = 0 THEN 0 ELSE IndexFrom(params, open + 1, "\"")
  IN IF open = 0 \/ shut = 0 THEN << >>
     ELSE <<SubSeq(params, open + 1, shut - 1)>> \o QuotedValues(params, shut + 1)

NoOpticInfo ==
  [found |-> FALSE, txPower |-> << >>, rxPower |-> << >>, voltage |-> << >>,
   temperature |-> << >>, uiType |-> ""]

extractOpticInfo(html) ==
  LET starts == {i \in 1..Len(html) : OpticMatchAt(html, i).found}
  IN IF starts = {} THEN NoOpticInfo
     ELSE LET params == OpticMatchAt(html, CHOOSE i \in starts : \A j \in starts : i <= j).params
              values == QuotedValues(params, 1)
          IN IF Len(values) < 5 THEN NoOpticInfo
             ELSE LET txRaw == values[2]
                      rxRaw == values[3]
                      voltageRaw == values[4]
                      temperatureRaw == values[5]
                      uiType == detectUIType(rxRaw)
                      Read(raw) == IF uiType = "blue" THEN trim(decodeHexString(raw))
                                   ELSE trim(raw)
                  IN [found |-> TRUE, txPower |-> Read(txRaw), rxPower |-> Read(rxRaw),
                      voltage |-> Read(voltageRaw), temperature |-> Read(temperatureRaw),
                      uiType |-> uiType]

\* ------------------------------------------------------------------------
\* SSHManager: sessions, timers and the events of the ssh2 client
\* ------------------------------------------------------------------------
MaxOps == 2
MaxCommands == 2
OpIds == 1..MaxOps

\* what settled the latest promise of an operation
NoSettle == [via |-> "none", code |-> 0, stderr |-> << >>, rejected |-> FALSE, value |-> << >>]
Settle(via, code, stderr, rejected, value) ==
  [via |-> via, code |-> code, stderr |-> stderr, rejected |-> rejected, value |-> value]

\* kind: "control" for connectToControlRouter, the executeCommand calls of
\* the caller and its finally block; "tunnel" for executeOnLHG60G.
\* open: the session exists and has not been ended; timer: a setTimeout of
\* the operation is pending; left: the commands the caller still has to send
NoOp ==
  [kind |-> "none", pc |-> "idle", open |-> FALSE, timer |-> FALSE, left |-> 0,
   last |-> NoSettle]

Markers == {<<"f", "a", "i", "l", "u", "r", "e">>, <<"e", "r", "r", "o", "r">>, <<"i", "n", "v", "a", "l", "i", "d">>}
HasMarker(stderr) == \E marker \in Markers : includes(stderr, marker)

\* the close handler of the first executeCommand of the file
CommandClosed_exitCode(code, stdout, stderr) ==
  IF code = 0 THEN Settle("close", code, stderr, FALSE, stdout)
  ELSE Settle("close", code, stderr, TRUE, stderr)

\* stream.on('close') of executeCommand
CommandClosed(code, stdout, stderr) ==
  IF \/ code = 0
     \/ /\ trim(stderr) = << >>
        /\ ~includes(stderr, <<"f", "a", "i", "l", "u", "r", "e">>)
        /\ ~includes(stderr, <<"e", "r", "r", "o", "r">>)
  THEN Settle("close", code, stderr, FALSE, stdout)
  ELSE IF HasMarker(stderr)
       THEN Settle("close", code, stderr, TRUE, stderr)
       ELSE Settle("close", code, stderr, FALSE, stdout)

\* stream.on('close') of executeOnLHG60G
TunnelClosed(code, stdout, stderr) ==
  IF HasMarker(stderr)
  THEN Settle("close", code, stderr, TRUE, stderr)
  ELSE Settle("close", code, stderr, FALSE, stdout)

ExitCodes == {0, 1}
Stdouts == {<<"o", "k", "\n">>}
Stderrs ==
  {<< >>,
   <<" ", "\n">>,
   <<"f", "a", "i", "l", "u", "r", "e", ":", " ", "i", "t", "e", "m">>,
   <<"s", "y", "n", "t", "a", "x", " ", "e", "r", "r", "o", "r">>,
   <<"i", "n", "v", "a", "l", "i", "d", " ", "v", "a", "l", "u", "e">>,
   <<"W", "A", "R", "N", "I", "N", "G">>}

SetOp(o, op) ==
  /\ ops' = [ops EXCEPT ![o] = op]
  /\ UNCHANGED <<schedVars, provVars, histVars, lastCall, runs, auxVars>>

\* the caller's code after a command of a control-router operation has
\* settled: the next executeCommand (its timer armed), or the finally block
AfterCommand(op, settle, goesOn) ==
  IF goesOn /\ op.left > 1
  THEN [op EXCEPT !.left = @ - 1, !.timer = TRUE, !.last = settle]
  ELSE [op EXCEPT !.pc = "done", !.left = 0, !.timer = FALSE, !.open = FALSE,
                  !.last = settle]

\* provisionDevice, deprovisionDevice or testConnection reaching
\* connectToControlRouter
BeginControl(o) ==
  /\ ops[o].pc \in {"idle", "done"}
  /\ \E n \in 1..MaxCommands :
       SetOp(o, [NoOp EXCEPT !.kind = "control", !.pc = "connecting", !.timer = TRUE,
                             !.left = n])

\* executeOnLHG60G called
BeginTunnel(o) ==
  /\ ops[o].pc \in {"idle", "done"}
  /\ SetOp(o, [NoOp EXCEPT !.kind = "tunnel", !.pc = "connecting", !.timer = TRUE,
                           !.left = 1])

\* conn.on('ready')
Ready(o) ==
  /\ ops[o].pc = "connecting"
  /\ SetOp(o, [ops[o] EXCEPT !.pc = "command", !.open = TRUE,
                             !.timer = (ops[o].kind = "control")])

\* conn.on('error'): the connection failed, or was lost
ConnectionError(o) ==
  /\ \/ ops[o].pc = "connecting"
     \/ ops[o].pc = "command" /\ ops[o].kind = "tunnel"
  /\ SetOp(o, [ops[o] EXCEPT !.pc = "done", !.open = FALSE, !.timer = FALSE, !.left = 0,
                             !.last = Settle("error", 0, << >>, TRUE, << >>)])

\* the connection timer fires
ConnectionTimeoutFires(o) ==
  /\ ops[o].pc = "connecting"
  /\ ops[o].timer
  /\ SetOp(o, [ops[o] EXCEPT !.pc = "done", !.open = FALSE, !.timer = FALSE, !.left = 0,
                             !.last = Settle("timeout", 0, << >>, TRUE, << >>)])

\* the callback of conn.exec called with an error
ExecError(o) ==
  /\ ops[o].pc = "command"
  /\ \E goesOn \in BOOLEAN :
       LET settle == Settle("exec", 0, << >>, TRUE, << >>)
       IN SetOp(o, IF ops[o].kind = "control" THEN AfterCommand(ops[o], settle, goesOn)
                   ELSE [ops[o] EXCEPT !.pc = "done", !.open = FALSE, !.left = 0,
                                       !.last = settle])

\* stream.on('close')
StreamClosed(o) ==
  /\ ops[o].pc = "command"
  /\ \E code \in ExitCodes : \E stdout \in Stdouts : \E stderr \in Stderrs :
       \E goesOn \in BOOLEAN :
         SetOp(o, IF ops[o].kind = "control"
                  THEN LET settle == CommandClosed(code, stdout, stderr)
                       IN AfterCommand(ops[o], settle, goesOn \/ ~settle.rejected)
                  ELSE [ops[o] EXCEPT !.pc = "done", !.open = FALSE, !.left = 0,
                                      !.last = TunnelClosed(code, stdout, stderr)])

\* the command timer of executeCommand fires
CommandTimeoutFires(o) ==
  /\ ops[o].pc = "command"
  /\ ops[o].timer
  /\ \E goesOn \in BOOLEAN :
       SetOp(o, AfterCommand(ops[o], Settle("timeout", 0, << >>, TRUE, << >>), goesOn))

\* ------------------------------------------------------------------------
\* Specifications
\* ------------------------------------------------------------------------
\* no parser has been called yet
NoCall == [fn |-> "none"]
\* ------------------------------------------------------------------------
\* NotificationService: the offline and online notifications of one device
\* ------------------------------------------------------------------------
\* polls of the device started in all
MaxChecks == 3

\* the notification columns of the device's row and the two settings that
\* processMonitoringResult reads with them
NoRow ==
  [notifyOffline |-> FALSE, retryAttempts |-> 0, consecutiveFailures |-> 0,
   isOfflineNotified |-> FALSE]
NotifRows ==
  {[notifyOffline |-> n, retryAttempts |-> r, consecutiveFailures |-> 0,
    isOfflineNotified |-> FALSE] : n \in BOOLEAN, r \in 1..2}

\* the polls of the device that can be under way together; each is
\*   idle      not started
\*   polling   admitted with the row it read, in monitorWithRetry
\*   offline   in "await this.sendNotificationToAll" of the failure branch
\*   online    in "await this.sendNotificationToAll" of the recovery branch
EvalIds == 1..2
IdleEval == [pc |-> "idle", device |-> NoRow, newFailures |-> 0]

\* the latest offline or online notification handed to sendNotificationToAll:
\* the outcome of the poll that sent it, the row that poll had read, the
\* count it computed and the row stored at that moment
NoSend ==
  [kind |-> "none", success |-> FALSE, device |-> NoRow, newFailures |-> 0,
   stored |-> NoRow]
\* the latest successful poll that has finished with the notification columns:
\* the row stored before and after
NoSuccess == [seen |-> FALSE, before |-> NoRow, after |-> NoRow]

\* db.updateDeviceNotificationState
updateDeviceNotificationState(row, consecutiveFailures, isOfflineNotified) ==
  [row EXCEPT !.consecutiveFailures = consecutiveFailures,
              !.isOfflineNotified = isOfflineNotified]

\* monitorDevice: "const currentDevice = this.db.getDeviceWithCredentials"
PollReadsRow(maxChecks) ==
  \E e \in EvalIds :
    /\ notif.traced
    /\ notif.evals[e].pc = "idle"
    /\ notif.started < maxChecks
    /\ notif' = [notif EXCEPT !.evals[e] = [IdleEval EXCEPT !.pc = "polling",
                                                            !.device = notif.row],
                              !.started = @ + 1]
    /\ UNCHANGED <<schedVars, provVars, histVars, extVars, reloadTimers, lastEnded>>

\* processMonitoringResult(device, result) up to its first await or, where it
\* sends nothing, to the end of its offline/online part: the notification it
\* hands to sendNotificationToAll, or the columns it writes at once
processMonitoringResult(device, success) ==
  IF ~success
  THEN IF device.notifyOffline
       THEN LET newFailures == device.consecutiveFailures + 1
            IN IF newFailures >= device.retryAttempts /\ ~device.isOfflineNotified
               THEN [send |-> "offline", write |-> FALSE, newFailures |-> newFailures,
                     isOfflineNotified |-> TRUE]
               ELSE [send |-> "none", write |-> TRUE, newFailures |-> newFailures,
                     isOfflineNotified |-> device.isOfflineNotified]
       ELSE [send |-> "none", write |-> FALSE, newFailures |-> 0,
             isOfflineNotified |-> FALSE]
  ELSE IF device.notifyOffline /\ device.isOfflineNotified
       THEN [send |-> "online", write |-> FALSE, newFailures |-> 0,
             isOfflineNotified |-> FALSE]
       ELSE IF device.consecutiveFailures > 0
            THEN [send |-> "none", write |-> TRUE, newFailures |-> 0,
                  isOfflineNotified |-> FALSE]
            ELSE [send |-> "none", write |-> FALSE, newFailures |-> 0,
                  isOfflineNotified |-> FALSE]

\* monitorWithRetry returns to a poll and monitorDevice calls
\* processMonitoringResult with the row the poll read at its admission
ResultProcessed ==
  \E e \in EvalIds : \E success \in BOOLEAN :
    /\ notif.traced
    /\ notif.evals[e].pc = "polling"
    /\ LET device == notif.evals[e].device
           r == processMonitoringResult(device, success)
           row == IF r.write
                  THEN updateDeviceNotificationState(notif.row, r.newFailures,
                                                     r.isOfflineNotified)
                  ELSE notif.row
       IN notif' =
            [notif EXCEPT
               !.row = row,
               !.evals[e] = IF r.send = "none" THEN IdleEval
                            ELSE [pc |-> r.send, device |-> device,
                                  newFailures |-> r.newFailures],
               !.offlineSent = IF success THEN 0
                               ELSE IF r.send = "offline" THEN @ + 1 ELSE @,
               !.lastSend = IF r.send = "none" THEN @
                            ELSE [kind |-> r.send, success |-> success,
                                  device |-> device, newFailures |-> r.newFailures,
                                  stored |-> notif.row],
               !.lastSuccess = IF success /\ r.send = "none"
                               THEN [seen |-> TRUE, before |-> notif.row, after |-> row]
                               ELSE @]
    /\ UNCHANGED <<schedVars, provVars, histVars, extVars, reloadTimers, lastEnded>>

\* sendNotificationToAll returns to processMonitoringResult, which writes the
\* notification columns: the count and the set flag after an offline
\* notification, 0 and the cleared flag after an online one
NotificationSent ==
  \E e \in EvalIds :
    /\ notif.traced
    /\ notif.evals[e].pc \in {"offline", "online"}
    /\ LET online == notif.evals[e].pc = "online"
           row == IF online
                  THEN updateDeviceNotificationState(notif.row, 0, FALSE)
                  ELSE updateDeviceNotificationState(notif.row,
                                                     notif.evals[e].newFailures, TRUE)
       IN notif' =
            [notif EXCEPT
               !.row = row,
               !.evals[e] = IdleEval,
               !.lastSuccess = IF online
                               THEN [seen |-> TRUE, before |-> notif.row, after |-> row]
                               ELSE @]
    /\ UNCHANGED <<schedVars, provVars, histVars, extVars, reloadTimers, lastEnded>>

\* no reload interval alive, no ended invocation kept, no notification
\* columns followed
NoNotif == [traced |-> FALSE]
AuxInit ==
  /\ reloadTimers = 0
  /\ lastEnded = Unended
  /\ notif = NoNotif

ExtInit ==
  /\ lastCall = NoCall
  /\ ops = [o \in OpIds |-> NoOp]
  /\ runs = [r \in RunIds |-> Idle]
  /\ AuxInit

Init ==
  /\ store = [d \in DeviceIds |-> NoDevice]
  /\ nextId = 1
  /\ cache = [d \in DeviceIds |-> "none"]
  /\ isRunning = FALSE
  /\ reloadTimer = FALSE
  /\ timers = [d \in DeviceIds |-> NoTimer]
  /\ deviceStartupDelay = 0
  /\ activeMonitoringCount = 0
  /\ intervalTimers = EmptyBag
  /\ timeouts = EmptyBag
  /\ polls = EmptyBag
  /\ gateway = EmptyGateway
  /\ lastRun = NoRun
  /\ prevRun = NoRun
  /\ lastResponse = NoResponse
  /\ ExtInit
  /\ lastReload = Untraced

\* the extractor outcomes and notification outcomes followed where the polls
\* are kept short
Succeeds == { o \in Outcomes : o.success }
Returns == {FALSE}

\* the scheduler's timers with the device table changing under them
Next ==
  \/ start
  \/ stop
  \/ ReloadTimerFires
  \/ IntervalTimerFires(MaxPolls)
  \/ FirstPollFires(MaxPolls)
  \/ triggerMonitoring(MaxPolls)
  \/ ExtractorCompletes(Succeeds)
  \/ NotificationCompletes(Returns)
  \/ AddDevice(MaxDevices, FewSettings)
  \/ UpdateDevice(FewSettings)
  \/ DeleteDevice

Spec == Init /\ [][Next]_vars

\* one device and its polls, followed through every attempt and outcome
PollNext ==
  \/ start
  \/ ReloadTimerFires
  \/ IntervalTimerFires(MaxPolls)
  \/ FirstPollFires(MaxPolls)
  \/ triggerMonitoring(MaxPolls)
  \/ ExtractorCompletes(Outcomes)
  \/ RetryDelayElapses
  \/ NotificationCompletes(BOOLEAN)
  \/ AddDevice(MaxPollDevices, Settings)
  \/ UpdateDevice(Settings)
  \/ DeleteDevice

PollSpec == Init /\ [][PollNext]_vars

\* the timers alone, with the device table changing under them and the
\* findings of each reload kept
TimerInit ==
  /\ store = [d \in DeviceIds |-> NoDevice]
  /\ nextId = 1
  /\ cache = [d \in DeviceIds |-> "none"]
  /\ isRunning = FALSE
  /\ reloadTimer = FALSE
  /\ timers = [d \in DeviceIds |-> NoTimer]
  /\ deviceStartupDelay = 0
  /\ activeMonitoringCount = 0
  /\ intervalTimers = EmptyBag
  /\ timeouts = EmptyBag
  /\ polls = EmptyBag
  /\ gateway = EmptyGateway
  /\ lastRun = NoRun
  /\ prevRun = NoRun
  /\ lastResponse = NoResponse
  /\ ExtInit
  /\ lastReload = NoReload

TimerNext ==
  \/ start
  \/ stop
  \/ ReloadTimerFires
  \/ AddDevice(MaxDevices, Settings)
  \/ UpdateDevice(Settings)
  \/ DeleteDevice

TimerSpec == TimerInit /\ [][TimerNext]_vars

\* many polls of two devices competing for the slots: the rows of the device
\* table from which CapSpec starts
CapDevices == {1, 2}
CapStore ==
  [d \in DeviceIds |->
    IF d \in CapDevices
    THEN RowOf(d, [monitoringInterval |-> 60, retryAttempts |-> 1])
    ELSE NoDevice]

CapInit ==
  /\ store = CapStore
  /\ nextId = MaxDevices + 1
  /\ cache = [d \in DeviceIds |-> "none"]
  /\ isRunning = FALSE
  /\ reloadTimer = FALSE
  /\ timers = [d \in DeviceIds |-> NoTimer]
  /\ deviceStartupDelay = 0
  /\ activeMonitoringCount = 0
  /\ intervalTimers = EmptyBag
  /\ timeouts = EmptyBag
  /\ polls = EmptyBag
  /\ gateway = EmptyGateway
  /\ lastRun = NoRun
  /\ prevRun = NoRun
  /\ lastResponse = NoResponse
  /\ ExtInit
  /\ lastReload = Untraced

CapNext ==
  \/ start
  \/ IntervalTimerFires(MaxCapPolls)
  \/ FirstPollFires(MaxCapPolls)
  \/ triggerMonitoring(MaxCapPolls)
  \/ AdmitWaiting
  \/ ExtractorCompletes(Succeeds)
  \/ NotificationCompletes(Returns)

CapSpec == CapInit /\ [][CapNext]_vars

\* the competition with every admitted invocation of each device going on to
\* its end (its extractor call and its notification call complete) and every
\* waiting invocation admitted when a slot stays free for it: the timer of its
\* 500 ms sleep fires, and finds the counter as it is at that moment
MovesOn(d) ==
  \E p \in BagToSet(polls) :
    /\ p.device.id = d /\ InFlight(p)
    /\ CopiesIn(p, polls') < CopiesIn(p, polls)
CapFairness ==
  /\ WF_vars(AdmitWaiting)
  /\ \A d \in CapDevices :
       /\ WF_vars(ExtractorCompletes(Succeeds) /\ MovesOn(d))
       /\ WF_vars(NotificationCompletes(Returns) /\ MovesOn(d))

LiveCapSpec == CapSpec /\ CapFairness

\* the same competition with polls that fail, notification calls that throw
\* and rows deleted under the polls, the way each invocation ended kept
EndOutcomes == { o \in Outcomes : ~o.thrown /\ o.error = "" }
EndStore ==
  [d \in DeviceIds |->
    IF d = 1 THEN RowOf(d, [monitoringInterval |-> 60, retryAttempts |-> 1]) ELSE NoDevice]

EndInit ==
  /\ store = EndStore
  /\ nextId = 2
  /\ cache = [d \in DeviceIds |-> "none"]
  /\ isRunning = FALSE
  /\ reloadTimer = FALSE
  /\ timers = [d \in DeviceIds |-> NoTimer]
  /\ deviceStartupDelay = 0
  /\ activeMonitoringCount = 0
  /\ intervalTimers = EmptyBag
  /\ timeouts = EmptyBag
  /\ polls = EmptyBag
  /\ gateway = EmptyGateway
  /\ lastRun = NoRun
  /\ prevRun = NoRun
  /\ lastResponse = NoResponse
  /\ lastReload = Untraced
  /\ lastCall = NoCall
  /\ ops = [o \in OpIds |-> NoOp]
  /\ runs = [r \in RunIds |-> Idle]
  /\ reloadTimers = 0
  /\ lastEnded = NoEnd
  /\ notif = NoNotif

EndNext ==
  \/ start
  \/ IntervalTimerFires(MaxCapPolls)
  \/ FirstPollFires(MaxCapPolls)
  \/ triggerMonitoring(MaxCapPolls)
  \/ AdmitWaiting
  \/ ExtractorCompletes(EndOutcomes)
  \/ NotificationCompletes(BOOLEAN)
  \/ DeleteDevice

EndSpec == EndInit /\ [][EndNext]_vars

\* the polls of one device, up to two at a time, and its notification columns
NotifInit ==
  /\ store = [d \in DeviceIds |-> NoDevice]
  /\ nextId = 1
  /\ cache = [d \in DeviceIds |-> "none"]
  /\ isRunning = FALSE
  /\ reloadTimer = FALSE
  /\ timers = [d \in DeviceIds |-> NoTimer]
  /\ deviceStartupDelay = 0
  /\ activeMonitoringCount = 0
  /\ intervalTimers = EmptyBag
  /\ timeouts = EmptyBag
  /\ polls = EmptyBag
  /\ gateway = EmptyGateway
  /\ lastRun = NoRun
  /\ prevRun = NoRun
  /\ lastResponse = NoResponse
  /\ lastReload = Untraced
  /\ lastCall = NoCall
  /\ ops = [o \in OpIds |-> NoOp]
  /\ runs = [r \in RunIds |-> Idle]
  /\ reloadTimers = 0
  /\ lastEnded = Unended
  /\ \E row \in NotifRows :
       notif = [traced |-> TRUE, row |-> row, evals |-> [e \in EvalIds |-> IdleEval],
                started |-> 0, offlineSent |-> 0, lastSend |-> NoSend,
                lastSuccess |-> NoSuccess]

NotifNext ==
  \/ PollReadsRow(MaxChecks)
  \/ ResultProcessed
  \/ NotificationSent

NotifSpec == NotifInit /\ [][NotifNext]_vars

\* the reconciler and its two routes over the device table, from each of a
\* few states of the control router
Address(ip, interfaceName) == [address |-> ip \o Slash24, interface |-> interfaceName]
GatewayStates ==
  {EmptyGateway,
   [addresses |-> <<Address(IP(10, 0, 1, 1), controlConfig.lhg60g_ethernet_interface)>>,
    nat |-> <<[comment |-> <<"x">>, dstAddress |-> controlConfig.control_ip,
               dstPort |-> toString(60001), toAddresses |-> IP(10, 0, 1, 5)]>>],
   [addresses |-> <<Address(IP(10, 0, 1, 11), controlConfig.lhg60g_ethernet_interface)>>,
    nat |-> << >>],
   [addresses |-> <<Address(IP(10, 0, 1, 1), OtherInterface)>>, nat |-> << >>]}

ProvInit ==
  /\ store = [d \in DeviceIds |-> NoDevice]
  /\ nextId = 1
  /\ cache = [d \in DeviceIds |-> "none"]
  /\ isRunning = FALSE
  /\ reloadTimer = FALSE
  /\ timers = [d \in DeviceIds |-> NoTimer]
  /\ deviceStartupDelay = 0
  /\ activeMonitoringCount = 0
  /\ intervalTimers = EmptyBag
  /\ timeouts = EmptyBag
  /\ polls = EmptyBag
  /\ gateway \in GatewayStates
  /\ lastRun = NoRun
  /\ prevRun = NoRun
  /\ lastResponse = NoResponse
  /\ ExtInit
  /\ lastReload = Untraced

OneSetting == {[monitoringInterval |-> 0, retryAttempts |-> 0]}

ProvNext ==
  \/ AddMikroTikDevice(MaxDevices, ProvisionEnvs)
  \/ DeleteMikroTikDevice(DeprovisionEnvs)
  \/ AddDevice(MaxDevices, OneSetting)

ProvSpec == ProvInit /\ [][ProvNext]_vars

\* the reconciler's two methods called directly, for one device and each of a
\* few lists of remaining devices, from the same states of the control router
MaxRules == 2
ReconDevices ==
  {MkRowOf(1, Body(<<"a">>, IP(10, 0, 1, 1), IP(10, 0, 1, 5), 60001)),
   MkRowOf(1, Body(<<"d">>, IP(10, 0, 1, 11), IP(10, 0, 1, 7), 60001))}
RemainingLists ==
  {<< >>,
   <<MkRowOf(2, Body(<<"b">>, IP(10, 0, 1, 1), IP(10, 0, 2, 5), 60002))>>,
   <<MkRowOf(2, Body(<<"c">>, IP(10, 0, 2, 1), IP(10, 0, 1, 6), 60002))>>}
ReconProvisionEnvs == {Working, Fault("nat print", CommandTimeout)}
ReconDeprovisionEnvs == {Working, NoSession, Fault("address remove", CommandTimeout)}

\* mikrotikProvisioning.provisionDevice(deviceConfig)
CallProvisionDevice(envs) ==
  \E device \in ReconDevices : \E env \in envs :
    LET out == provisionDevice(gateway, device, env)
    IN /\ Len(out.gateway.nat) <= MaxRules
       /\ gateway' = out.gateway
       /\ prevRun' = lastRun
       /\ lastRun' = Run("provision", device, << >>, env, gateway, out)
       /\ UNCHANGED <<schedVars, histVars, extVars, auxVars, lastResponse>>

\* mikrotikProvisioning.deprovisionDevice(deviceConfig, remainingDevices)
CallDeprovisionDevice(envs) ==
  \E device \in ReconDevices : \E remainingDevices \in RemainingLists : \E env \in envs :
    LET out == deprovisionDevice(gateway, device, remainingDevices, env)
    IN /\ gateway' = out.gateway
       /\ prevRun' = lastRun
       /\ lastRun' = Run("deprovision", device, remainingDevices, env, gateway, out)
       /\ UNCHANGED <<schedVars, histVars, extVars, auxVars, lastResponse>>

ReconNext ==
  \/ CallProvisionDevice(ReconProvisionEnvs)
  \/ CallDeprovisionDevice(ReconDeprovisionEnvs)

ReconSpec == ProvInit /\ [][ReconNext]_vars

\* the same calls on a router that holds a rule left on the device's external
\* port for another inner address
StaleRule(toAddresses) ==
  [comment |-> <<"x">>, dstAddress |-> controlConfig.control_ip,
   dstPort |-> toString(60001), toAddresses |-> toAddresses]
NatGatewayStates ==
  {EmptyGateway,
   [addresses |-> << >>, nat |-> <<StaleRule(IP(10, 0, 1, 5))>>],
   [addresses |-> << >>, nat |-> <<StaleRule(IP(10, 0, 1, 50))>>],
   [addresses |-> << >>, nat |-> <<StaleRule(IP(10, 0, 2, 7))>>]}

NatInit ==
  /\ store = [d \in DeviceIds |-> NoDevice]
  /\ nextId = 1
  /\ cache = [d \in DeviceIds |-> "none"]
  /\ isRunning = FALSE
  /\ reloadTimer = FALSE
  /\ timers = [d \in DeviceIds |-> NoTimer]
  /\ deviceStartupDelay = 0
  /\ activeMonitoringCount = 0
  /\ intervalTimers = EmptyBag
  /\ timeouts = EmptyBag
  /\ polls = EmptyBag
  /\ gateway \in NatGatewayStates
  /\ lastRun = NoRun
  /\ prevRun = NoRun
  /\ lastResponse = NoResponse
  /\ ExtInit
  /\ lastReload = Untraced

NatSpec == NatInit /\ [][ReconNext]_vars

\* the parsers and the gateway-reachable extractor applied to command
\* outputs and status pages
Labels ==
  {<<"r", "a", "t", "e", ":", " ">>,
   <<"r", "a", "t", "e", ":">>,
   <<"R", "a", "t", "e", ":", " ">>,
   <<"s", "t", "a", "t", "u", "s", ":", " ">>}
Numbers ==
  {[text |-> <<"1">>, thousandths |-> 1000],
   [text |-> <<"1", "0">>, thousandths |-> 10000],
   [text |-> <<"1", "0", "0">>, thousandths |-> 100000],
   [text |-> <<"2", ".", "5">>, thousandths |-> 2500],
   [text |-> <<"1", ".", "4">>, thousandths |-> 1400],
   [text |-> <<"1", ".", "5">>, thousandths |-> 1500]}
Units ==
  {<<"M", "b", "p", "s">>,
   <<"G", "b", "p", "s">>,
   <<"m", "b", "p", "s">>,
   <<"G", "B", "P", "S">>,
   <<"k", "b", "p", "s">>}
Gaps == {<< >>, Space}
Preambles == {<< >>, <<"n", "a", "m", "e", ":", " ", "e", "t", "h", "e", "r", "1", "\n">>}

\* stdout of /interface ethernet monitor [find] once
RateOutput(given) ==
  given.preamble \o given.label \o given.number.text \o given.gap \o given.unit \o Newline

\* a call that is about to be made, and the call once it has returned
Pending(fn, given) == [fn |-> fn, given |-> given, done |-> FALSE, result |-> Null]
Returned(call, result) == [call EXCEPT !.done = TRUE, !.result = result]

SpeedCalls ==
  {Pending("parsePortSpeed",
           [preamble |-> preamble, label |-> label, number |-> number,
            gap |-> gap, unit |-> unit]) :
     preamble \in Preambles, label \in Labels, number \in Numbers,
     gap \in Gaps, unit \in Units}

\* mikrotikMonitor.parsePortSpeed(output)
CallParsePortSpeed ==
  /\ lastCall.fn = "parsePortSpeed"
  /\ ~lastCall.done
  /\ lastCall' = Returned(lastCall, parsePortSpeed(RateOutput(lastCall.given)))
  /\ UNCHANGED <<schedVars, provVars, histVars, ops, runs, auxVars>>

RssiOutputs ==
  {<<"r", "s", "s", "i", ":", " ", "-", "5", "6", "\n">>,
   <<"r", "s", "s", "i", ":", "7">>,
   <<"t", "x", "-", "m", "c", "s", ":", " ", "8", "\n">>}
SpeedOutputs ==
  {<<"r", "a", "t", "e", ":", " ", "1", "G", "b", "p", "s", "\n">>,
   <<"r", "a", "t", "e", ":", " ", "1", "0", "0", "M", "b", "p", "s", "\n">>,
   <<"s", "t", "a", "t", "u", "s", ":", " ", "n", "o", "-", "l", "i", "n", "k", "\n">>}
CommandOutcomes(outputs) == {RejectedCommand} \cup {Answered(stdout) : stdout \in outputs}

MonitorCalls ==
  {Pending("monitorMikroTik",
           [config |-> config, rssiOutcome |-> rssiOutcome, speedOutcome |-> speedOutcome]) :
     config \in BOOLEAN, rssiOutcome \in CommandOutcomes(RssiOutputs),
     speedOutcome \in CommandOutcomes(SpeedOutputs)}

\* mikrotikMonitor.monitorMikroTik(deviceConfig)
CallMonitorMikroTik ==
  /\ lastCall.fn = "monitorMikroTik"
  /\ ~lastCall.done
  /\ lastCall' = Returned(lastCall,
                          monitorMikroTik(lastCall.given.config, lastCall.given.rssiOutcome,
                                          lastCall.given.speedOutcome))
  /\ UNCHANGED <<schedVars, provVars, histVars, ops, runs, auxVars>>

\* the status page of an ONU for the four values, as the red pages (plain
\* text) and the blue pages (escaped characters) carry them
TxPowers == {<<"-", "2", ".", "5">>, <<"2", ".", "1", "3">>}
RxPowers == {<<"-", "2", "0", ".", "1">>, <<"-", "-">>, <<"7">>}
Voltages == {<<"3", "3", "0", "0">>, <<" ", "3", "2", "8", "0">>}
Temperatures == {<<"4", "5">>, <<"-", "5">>}
Encodings == {"plain", "lower", "upper", "specials"}

CodeOf(c) == 31 + CHOOSE i \in 1..Len(Ascii) : Ascii[i] = c
HexOf(n, upper) == IF upper /\ n >= 10 THEN Capitals[n - 9] ELSE HexChars[n + 1]
EscapeChar(c, upper) ==
  <<"\\", "x", HexOf(CodeOf(c) \div 16, upper), HexOf(CodeOf(c) % 16, upper)>>

RECURSIVE Encode(_, _)
Encode(value, encoding) ==
  IF Len(value) = 0 \/ encoding = "plain" THEN value
  ELSE (IF encoding = "specials" /\ IsDigit(value[1]) THEN <<value[1]>>
        ELSE EscapeChar(value[1], encoding = "upper"))
       \o Encode(Tail(value), encoding)

Quoted(value) == <<"\"">> \o value \o <<"\"">>

OpticPage(given) ==
  <<"x", ";", "\n", "v", "a", "r", " ", "o", "p", "t", "i", "c", "I", "n", "f", "o", "s", " ", "=", " ", "n", "e", "w", " ", "A", "r", "r", "a", "y", "(", "n", "e", "w", " ", "s", "t", "O", "p", "t", "i", "c", "I", "n", "f", "o", "(">>
    \o join(<<Quoted(<<"d">>),
              Quoted(Encode(given.txPower, given.encoding)),
              Quoted(Encode(given.rxPower, given.encoding)),
              Quoted(Encode(given.voltage, given.encoding)),
              Quoted(Encode(given.temperature, given.encoding)),
              Quoted(<<"1", "2">>)>>, <<",">>)
    \o <<")", ",", "n", "u", "l", "l", ")", ";">>

OpticCalls ==
  {Pending("extractOpticInfo",
           [txPower |-> txPower, rxPower |-> rxPower, voltage |-> voltage,
            temperature |-> temperature, encoding |-> encoding]) :
     txPower \in TxPowers, rxPower \in RxPowers, voltage \in Voltages,
     temperature \in Temperatures, encoding \in Encodings}

\* onuMonitor's extractOpticInfo(html)
CallExtractOpticInfo ==
  /\ lastCall.fn = "extractOpticInfo"
  /\ ~lastCall.done
  /\ lastCall' = Returned(lastCall, extractOpticInfo(OpticPage(lastCall.given)))
  /\ UNCHANGED <<schedVars, provVars, histVars, ops, runs, auxVars>>

ParseInit ==
  /\ store = [d \in DeviceIds |-> NoDevice]
  /\ nextId = 1
  /\ cache = [d \in DeviceIds |-> "none"]
  /\ isRunning = FALSE
  /\ reloadTimer = FALSE
  /\ timers = [d \in DeviceIds |-> NoTimer]
  /\ deviceStartupDelay = 0
  /\ activeMonitoringCount = 0
  /\ intervalTimers = EmptyBag
  /\ timeouts = EmptyBag
  /\ polls = EmptyBag
  /\ gateway = EmptyGateway
  /\ lastRun = NoRun
  /\ prevRun = NoRun
  /\ lastResponse = NoResponse
  /\ lastReload = Untraced
  /\ lastCall \in SpeedCalls \cup MonitorCalls \cup OpticCalls
  /\ ops = [o \in OpIds |-> NoOp]
  /\ runs = [r \in RunIds |-> Idle]
  /\ AuxInit

ParseNext ==
  \/ CallParsePortSpeed
  \/ CallMonitorMikroTik
  \/ CallExtractOpticInfo

ParseSpec == ParseInit /\ [][ParseNext]_vars

\* the operations of the SSH manager against a remote side that may answer,
\* fail, or never answer
ChanNext ==
  \E o \in OpIds :
    \/ BeginControl(o)
    \/ BeginTunnel(o)
    \/ Ready(o)
    \/ ConnectionError(o)
    \/ ConnectionTimeoutFires(o)
    \/ ExecError(o)
    \/ StreamClosed(o)
    \/ CommandTimeoutFires(o)

ChanSpec == Init /\ [][ChanNext]_vars

\* a pending setTimeout fires unless it is cleared
ChanFairness ==
  \A o \in OpIds :
    /\ WF_vars(ConnectionTimeoutFires(o))
    /\ WF_vars(CommandTimeoutFires(o))

LiveChanSpec == ChanSpec /\ ChanFairness

\* two calls of the reconciler for different devices, with different tunnel
\* addresses, device addresses and external ports, from the same router
First == MkRowOf(1, Body(<<"a">>, IP(10, 0, 1, 1), IP(10, 0, 1, 5), 60001))
Seconds ==
  {MkRowOf(2, Body(<<"c">>, IP(10, 0, 2, 1), IP(10, 0, 1, 6), 60002)),
   MkRowOf(2, Body(<<"e">>, IP(10, 0, 1, 11), IP(10, 0, 1, 7), 60002))}
RunOps == {"provision", "deprovision"}

\* the router with the devices provisioned one after the other
RECURSIVE Provisioned(_, _)
Provisioned(devices, i) ==
  IF i = 0 THEN EmptyGateway
  ELSE provisionDevice(Provisioned(devices, i - 1), devices[i], Working).gateway

RaceInit ==
  /\ store = [d \in DeviceIds |-> NoDevice]
  /\ nextId = 1
  /\ cache = [d \in DeviceIds |-> "none"]
  /\ isRunning = FALSE
  /\ reloadTimer = FALSE
  /\ timers = [d \in DeviceIds |-> NoTimer]
  /\ deviceStartupDelay = 0
  /\ activeMonitoringCount = 0
  /\ intervalTimers = EmptyBag
  /\ timeouts = EmptyBag
  /\ polls = EmptyBag
  /\ lastRun = NoRun
  /\ prevRun = NoRun
  /\ lastResponse = NoResponse
  /\ lastReload = Untraced
  /\ lastCall = NoCall
  /\ ops = [o \in OpIds |-> NoOp]
  /\ AuxInit
  /\ \E second \in Seconds : \E op1 \in RunOps : \E op2 \in RunOps :
       \E known \in BOOLEAN : \E listed \in BOOLEAN :
         /\ gateway = (IF known THEN Provisioned(<<First, second>>, 2) ELSE EmptyGateway)
         /\ runs = [r \in RunIds |->
                      IF r = 1
                      THEN Called(op1, First, IF listed THEN <<second>> ELSE << >>,
                                  gateway, FALSE)
                      ELSE Called(op2, second, IF listed THEN <<First>> ELSE << >>,
                                  gateway, FALSE)]

RaceNext ==
  \E r \in RunIds :
    \/ Connected(r)
    \/ AddressPrinted(r)
    \/ AddressAdded(r)
    \/ NatPrinted(r)
    \/ NatAdded(r)
    \/ NatRemoved(r)
    \/ AddressRemoved(r)

RaceSpec == RaceInit /\ [][RaceNext]_vars

\* devices added through the route while the scheduler runs
AddBodies ==
  {Body(<<"a">>, IP(10, 0, 1, 1), IP(10, 0, 1, 5), 60001),
   Body(<<"c">>, IP(10, 0, 2, 1), IP(10, 0, 1, 6), 60002)}

AddNext ==
  \/ start
  \/ ReloadTimerFires
  \/ FirstPollFires(MaxPolls)
  \/ IntervalTimerFires(MaxPolls)
  \/ PostMikroTikDevice(MaxDevices, AddBodies)
  \/ \E r \in RunIds :
       \/ Connected(r)
       \/ AddressPrinted(r)
       \/ AddressAdded(r)
       \/ NatPrinted(r)
       \/ NatAdded(r)
       \/ PostMikroTikDeviceAnswers(r)

AddSpec == Init /\ [][AddNext]_vars

\* ------------------------------------------------------------------------
\* Properties of the scheduler
\* ------------------------------------------------------------------------
\* the invocations past the admission test that have not finished
InFlightPolls == { p \in BagToSet(polls) : InFlight(p) }
RECURSIVE Copies(_, _)
Copies(b, S) ==
  IF S = {} THEN 0
  ELSE LET x == CHOOSE x \in S : TRUE IN CopiesIn(x, b) + Copies(b, S \ {x})
InFlightCount == Copies(polls, InFlightPolls)
InFlightOf(d) == Copies(polls, { p \in InFlightPolls : p.device.id = d })

\* C1: the number of polls that passed the admission test of monitorDevice and
\* have not finished never exceeds maxConcurrentMonitoring, all devices
\* taken together
C1_ConcurrencyBound == InFlightCount <= maxConcurrentMonitoring

\* C1 witness: the cap is reached with polls of both devices in flight while
\* another poll waits for admission
C1_CapReached ==
  /\ InFlightCount = maxConcurrentMonitoring
  /\ \A d \in DeviceIds : InFlightOf(d) >= 1
  /\ \E p \in BagToSet(polls) : p.pc = "waiting"

\* C2 (as claimed): once stop() has returned no recurring timer and no pending
\* first-poll timer installed before it is left to start a poll
C2_StopCancelsTimers ==
  ~isRunning => BagCardinality(intervalTimers) = 0 /\ BagCardinality(timeouts) = 0

\* the error text the scheduler has observed in an attempt that ended with o
ObservedError(o) == IF o.error = "" THEN "Unknown error" ELSE o.error

\* C6: a poll whose every attempt failed has called the extractor exactly
\* retryAttempts times (retryAttempts >= 1) when it returns its failed result,
\* and the error of that result is the error of the last attempt
C6_RetryExhaustion ==
  \A p \in BagToSet(polls) :
    (p.pc = "notifying" /\ ~p.result.success /\ p.currentDevice.retryAttempts >= 1)
      => /\ Len(p.seen) = p.currentDevice.retryAttempts
         /\ p.attempt = p.currentDevice.retryAttempts
         /\ \A i \in 1..Len(p.seen) : p.seen[i].thrown \/ ~p.seen[i].success
         /\ p.result.error = ObservedError(p.seen[Len(p.seen)])

\* C6 witness: a failed result after two attempts that failed with different
\* errors
C6_TwoFailedAttempts ==
  \E p \in BagToSet(polls) :
    /\ p.pc = "notifying" /\ ~p.result.success
    /\ p.currentDevice.retryAttempts = 2
    /\ Len(p.seen) = 2
    /\ p.seen[1].error # p.seen[2].error
    /\ p.seen[2].thrown

\* C7: every poll that has obtained an outcome, success or failure, has written
\* that outcome to the cache and then called the notification evaluation, in
\* this order and with nothing else in between
C7_CacheThenNotify ==
  \A p \in BagToSet(polls) :
    /\ p.pc \in {"extracting", "retryDelay"} => p.calls = << >>
    /\ p.pc = "notifying"
         => /\ Len(p.calls) = 2
            /\ p.calls[1].op = "cache"
            /\ p.calls[1].id = p.currentDevice.id
            /\ p.calls[1].status = (IF p.result.success THEN "online" ELSE "offline")
            /\ p.calls[2].op = "notify"
            /\ p.calls[2].status = (IF p.result.success THEN "success" ELSE "failure")

\* C7 witness: a failed poll has written 'offline' and is in the notification
C7_FailureForwarded ==
  \E p \in BagToSet(polls) :
    /\ p.pc = "notifying" /\ ~p.result.success
    /\ cache[p.currentDevice.id] = "offline"

\* C8: the notification evaluator is called exactly once for a poll outcome,
\* with the row the poll re-read from the device table
C8_NotifyOnceWithRereadRow ==
  \A p \in BagToSet(polls) :
    /\ p.pc # "notifying" => \A i \in 1..Len(p.calls) : p.calls[i].op # "notify"
    /\ p.pc = "notifying"
         => /\ Cardinality({ i \in 1..Len(p.calls) : p.calls[i].op = "notify" }) = 1
            /\ \A i \in 1..Len(p.calls) :
                 p.calls[i].op = "notify"
                   => /\ p.calls[i].device = p.currentDevice
                      /\ p.calls[i].error = p.result.error

\* C8 witness: the notification runs for a poll whose timer had captured a row
\* that was changed before the poll re-read it
C8_StaleCapture ==
  \E p \in BagToSet(polls) :
    /\ p.pc = "notifying"
    /\ p.device # p.currentDevice
    /\ \E t \in BagToSet(intervalTimers) : t.device = p.device

\* C9 (as claimed): at most one poll of a device is in flight at any time
C9_OnePollPerDevice == \A d \in DeviceIds : InFlightOf(d) <= 1

\* C10 (as claimed): when a reload drops the entry of a device that is no longer
\* listed, no recurring timer of that device is left in the runtime
C10_RemovedDeviceTimerCancelled ==
  [][ \A d \in DeviceIds :
        (isRunning /\ isRunning' /\ timers[d] # NoTimer /\ timers'[d] = NoTimer)
          => \A t \in BagToSet(intervalTimers') : t.device.id # d ]_vars

\* ------------------------------------------------------------------------
\* Properties of the reconciler
\* ------------------------------------------------------------------------
GatewayReachable(row) == row.device_type = "mikrotik_lhg60g"
\* what provisionDevice reads of a row
Descriptor(row) ==
  <<row.name, row.mikrotik_tunnel_ip, row.mikrotik_lhg60g_ip, row.mikrotik_ssh_port>>
FirstThreeOctets(ip) == SubSeq(split(ip, "."), 1, 3)

AddressEntries(gw, row) ==
  Len(SelectSeq(gw.addresses,
                LAMBDA a : /\ a.address = row.mikrotik_tunnel_ip \o Slash24
                           /\ a.interface = controlConfig.lhg60g_ethernet_interface))
NatEntries(gw, row) ==
  Len(SelectSeq(gw.nat,
                LAMBDA r : /\ r.dstPort = toString(row.mikrotik_ssh_port)
                           /\ r.toAddresses = row.mikrotik_lhg60g_ip))
Issued(run, command) == \E i \in 1..Len(run.cmds) : run.cmds[i] = command
Recorded(run, step) == \E i \in 1..Len(run.steps) : run.steps[i] = step

ProvisionedTwice ==
  /\ prevRun.op = "provision"
  /\ lastRun.op = "provision"
  /\ Descriptor(prevRun.device) = Descriptor(lastRun.device)

\* C3: when provisionDevice runs twice in succession for the same device,
\* the first run having succeeded and the router answering the second, the
\* second run leaves the router as the first left it, sends no add command
\* and reports success; and when the router answered the first run too, the
\* two runs have put no second copy of the device's address or NAT rule on it
C3_ProvisionIdempotent ==
  (ProvisionedTwice /\ prevRun.success /\ lastRun.env = Working) =>
    /\ gateway = lastRun.before
    /\ lastRun.success
    /\ ~Issued(lastRun, "address add")
    /\ ~Issued(lastRun, "nat add")
    /\ prevRun.env = Working =>
         /\ AddressEntries(gateway, lastRun.device) > 1 =>
              AddressEntries(gateway, lastRun.device)
                = AddressEntries(prevRun.before, lastRun.device)
         /\ NatEntries(gateway, lastRun.device) > 1 =>
              NatEntries(gateway, lastRun.device)
                = NatEntries(prevRun.before, lastRun.device)

\* the first run added the address and the rule, the second found both
C3_SecondRunFoundBoth ==
  /\ ProvisionedTwice
  /\ prevRun.env = Working
  /\ lastRun.env = Working
  /\ Issued(prevRun, "address add")
  /\ Issued(prevRun, "nat add")
  /\ Recorded(lastRun, "ip exists")
  /\ Recorded(lastRun, "nat exists")
  /\ AddressEntries(gateway, lastRun.device) = 1
  /\ NatEntries(gateway, lastRun.device) = 1

SharesSubnet(run) ==
  \E i \in 1..Len(run.remaining) :
    /\ GatewayReachable(run.remaining[i])
    /\ FirstThreeOctets(run.remaining[i].mikrotik_lhg60g_ip)
         = FirstThreeOctets(run.device.mikrotik_tunnel_ip)

\* C4: a deprovisionDevice(D, R) that opened its session sends the address
\* removal for D's tunnel IP exactly when no gateway-reachable device of R has
\* an inner IP with the first three octets of D's tunnel IP; when one has, the
\* router's addresses are as before and the outcome has the preserved step
C4_SubnetSafety ==
  (lastRun.op = "deprovision" /\ lastRun.opened /\ GatewayReachable(lastRun.device)) =>
    /\ Issued(lastRun, "address remove") <=> ~SharesSubnet(lastRun)
    /\ SharesSubnet(lastRun) =>
         /\ gateway.addresses = lastRun.before.addresses
         /\ Recorded(lastRun, "ip preserved")

\* a device of another subnet remained, and the address left the router
C4_AddressRemoved ==
  /\ lastRun.op = "deprovision"
  /\ lastRun.opened
  /\ GatewayReachable(lastRun.device)
  /\ \E i \in 1..Len(lastRun.remaining) : GatewayReachable(lastRun.remaining[i])
  /\ Issued(lastRun, "address remove")
  /\ AddressEntries(lastRun.before, lastRun.device) = 1
  /\ AddressEntries(gateway, lastRun.device) = 0

Deleted == lastRun.op = "deprovision" /\ GatewayReachable(lastRun.device)
AddressKept ==
  AddressEntries(lastRun.before, lastRun.device) > 0 =>
    AddressEntries(gateway, lastRun.device) > 0

TimersIn(active, d) == Copies(active, {t \in BagToSet(active) : t.device.id = d})
Configured(d) == OrNum(store[d].monitoringInterval, DefaultInterval) * 1000
\* a step that runs reloadDevices()
Reloads == (~isRunning /\ start) \/ ReloadTimerFires
Registered(d) == timers[d] # NoTimer /\ store[d] # NoDevice

\* C11 (as claimed): no device id ever has more than one recurring timer alive
C11_OneTimerPerDevice == \A d \in DeviceIds : TimersIn(intervalTimers, d) <= 1

\* C12: a reload that finds a registered device whose row has another interval
\* than its entry cancels the entry's timer and installs one timer with the new
\* interval, which becomes the entry
C12_IntervalChangeReinstalls ==
  [][Reloads =>
       \A d \in DeviceIds :
         (Registered(d) /\ Configured(d) # timers[d].interval) =>
           /\ timers'[d].interval = Configured(d)
           /\ timers'[d].timer.ms = Configured(d)
           /\ CopiesIn(timers[d].timer, intervalTimers')
                = CopiesIn(timers[d].timer, intervalTimers) - 1
           /\ CopiesIn(timers'[d].timer, intervalTimers')
                = CopiesIn(timers'[d].timer, intervalTimers) + 1
           /\ TimersIn(intervalTimers', d) = TimersIn(intervalTimers, d)]_vars

\* the latest reload found a changed interval and the entry now has it
C12_Rescheduled ==
  \E d \in lastReload.changed :
    /\ isRunning
    /\ Registered(d)
    /\ timers[d].interval = Configured(d)
    /\ timers[d].timer.ms = Configured(d)
    /\ TimersIn(intervalTimers, d) = 1

TimeoutsIn(pending, d) == Copies(pending, {t \in BagToSet(pending) : t.device.id = d})

\* C13: a reload that finds a registered device whose row has the interval of
\* its entry leaves the entry, the device's timer and its pending first polls
\* as they were
C13_SameIntervalUntouched ==
  [][Reloads =>
       \A d \in DeviceIds :
         (Registered(d) /\ Configured(d) = timers[d].interval) =>
           /\ timers'[d] = timers[d]
           /\ CopiesIn(timers[d].timer, intervalTimers')
                = CopiesIn(timers[d].timer, intervalTimers)
           /\ TimersIn(intervalTimers', d) = TimersIn(intervalTimers, d)
           /\ TimeoutsIn(timeouts', d) = TimeoutsIn(timeouts, d)]_vars

\* the latest reload kept a device whose row had changed but not its interval
C13_KeptWithStaleRow ==
  \E d \in lastReload.kept :
    /\ isRunning
    /\ Registered(d)
    /\ timers[d].timer.device # store[d]
    /\ timers[d].interval = Configured(d)
    /\ TimersIn(intervalTimers, d) = 1

\* the first polls a reload schedules for the rows without an entry, in the
\* order it reads them
RECURSIVE Staggered(_, _)
Staggered(rows, k) ==
  IF k > Len(rows) THEN EmptyBag
  ELSE One([device |-> rows[k], delay |-> StaggerIncrement * (k - 1)])
       (+) Staggered(rows, k + 1)

\* C14: a reload schedules the first polls of the N devices it registers at
\* the offsets 0, 2000, ..., 2000 * (N - 1) in registration order, starting
\* from 0 in every reload, and no other first poll
C14_StaggeredFirstPolls ==
  [][Reloads =>
       timeouts' = timeouts (+)
         Staggered(SelectSeq(getAllONUDevices, LAMBDA r : timers[r.id] = NoTimer), 1)]_vars

\* the latest reload registered two devices, and their first polls are
\* pending at the offsets 0 and 2000
C14_TwoRegistered ==
  /\ Len(lastReload.fresh) >= 2
  /\ \E t \in BagToSet(timeouts) : t.device.id = lastReload.fresh[1] /\ t.delay = 0
  /\ \E t \in BagToSet(timeouts) :
       t.device.id = lastReload.fresh[2] /\ t.delay = StaggerIncrement

\* ------------------------------------------------------------------------
\* Properties of the retry loop
\* ------------------------------------------------------------------------
\* C15: an attempt after the first starts only in a step that ends the retry
\* delay of the same poll, entered when the attempt before it had failed; the
\* poll has then seen one failed outcome for each earlier attempt and none of
\* the attempt that starts
C15_SequentialRetries ==
  [][\A q \in BagToSet(polls') :
       (q.pc = "extracting" /\ q.attempt > 1 /\ CopiesIn(q, polls') > CopiesIn(q, polls)) =>
         \E p \in BagToSet(polls) :
           /\ p.pc = "retryDelay"
           /\ p.attempt = q.attempt - 1
           /\ q = [p EXCEPT !.pc = "extracting", !.attempt = p.attempt + 1]
           /\ CopiesIn(p, polls') = CopiesIn(p, polls) - 1
           /\ Len(p.seen) = p.attempt
           /\ \A i \in 1..Len(p.seen) : p.seen[i].thrown \/ ~p.seen[i].success]_vars

\* a poll in its second attempt, the first one failed and waited out
C15_SecondAttemptRunning ==
  \E p \in BagToSet(polls) :
    /\ p.pc = "extracting"
    /\ p.attempt = 2
    /\ Len(p.seen) = 1
    /\ ~p.seen[1].success

\* ------------------------------------------------------------------------
\* Properties of the reconciler's error handling
\* ------------------------------------------------------------------------
Warned(run, warning) == \E i \in 1..Len(run.warnings) : run.warnings[i] = warning

\* C16 (as claimed): when provisionDevice has its session and the address add
\* is rejected, the run records a warning and goes on to the NAT rule
C16_AddFailureDoesNotAbort ==
  (/\ lastRun.op = "provision"
   /\ lastRun.opened
   /\ Issued(lastRun, "address add")
   /\ lastRun.env.fault = "address add") =>
    /\ Len(lastRun.warnings) > 0
    /\ Issued(lastRun, "nat print")

RemovalRejected(run, command) == Issued(run, command) /\ run.env.fault = command

\* C17 (as claimed): every deprovisionDevice run reports success; without a
\* session or a configuration it warns and sends nothing; every rejected
\* removal command leaves a warning
C17_RejectedRemovalWarns ==
  lastRun.op = "deprovision" =>
    /\ lastRun.success
    /\ ~lastRun.opened =>
         Len(lastRun.warnings) > 0 /\ lastRun.cmds = << >> /\ gateway = lastRun.before
    /\ RemovalRejected(lastRun, "nat remove") => Warned(lastRun, "nat remove failed")
    /\ RemovalRejected(lastRun, "address remove") => Warned(lastRun, "ip remove failed")

\* C17: every deprovisionDevice run reports success; without a session or a
\* configuration it warns and sends nothing; a removal command rejected with
\* another message than "no such item" leaves a warning
C17_AlwaysSucceeds ==
  lastRun.op = "deprovision" =>
    /\ lastRun.success
    /\ ~lastRun.opened =>
         Len(lastRun.warnings) > 0 /\ lastRun.cmds = << >> /\ gateway = lastRun.before
    /\ (RemovalRejected(lastRun, "nat remove") /\ ~includes(lastRun.env.error, NoSuchItem))
         => Warned(lastRun, "nat remove failed")
    /\ (RemovalRejected(lastRun, "address remove")
          /\ ~includes(lastRun.env.error, NoSuchItem))
         => Warned(lastRun, "ip remove failed")

\* a deletion whose session could not be opened: a warning, no command, success
C17_NoSessionStillSucceeds ==
  /\ lastRun.op = "deprovision"
  /\ lastRun.env = NoSession
  /\ Warned(lastRun, "cleanup error")
  /\ lastRun.cmds = << >>
  /\ lastRun.success

\* the router had no NAT rule of the device and answered the removal either
\* with nothing or with "no such item"
NatRuleAbsent ==
  /\ lastRun.op = "deprovision"
  /\ lastRun.opened
  /\ GatewayReachable(lastRun.device)
  /\ NatEntries(lastRun.before, lastRun.device) = 0
  /\ lastRun.env \in {Working, Fault("nat remove", NoSuchItem)}

\* C18 (as claimed): a NAT rule that is not on the router leaves a warning in
\* the outcome's warnings
C18_NotFoundWarned == NatRuleAbsent => Len(lastRun.warnings) > 0

\* C18: a NAT rule or an address that is not on the router leaves nothing in
\* the outcome's warnings (the catch only logs it); the run records the
\* removal step, goes on with the address and reports success
C18_NotFoundLoggedOnly ==
  /\ NatRuleAbsent =>
       /\ lastRun.warnings = << >>
       /\ Recorded(lastRun, "nat removed")
       /\ Recorded(lastRun, "ip preserved") \/ Recorded(lastRun, "ip removed")
       /\ lastRun.success
  /\ (/\ lastRun.op = "deprovision"
      /\ Issued(lastRun, "address remove")
      /\ AddressEntries(lastRun.before, lastRun.device) = 0
      /\ lastRun.env \in {Working, Fault("address remove", NoSuchItem)}) =>
       /\ lastRun.warnings = << >>
       /\ Recorded(lastRun, "ip removed")
       /\ lastRun.success

\* the router answered "no such item" for a rule it did not have
C18_NoSuchItemAnswered ==
  /\ NatRuleAbsent
  /\ lastRun.env = Fault("nat remove", NoSuchItem)
  /\ Recorded(lastRun, "nat removed")

\* ------------------------------------------------------------------------
\* Properties of repeated cleanup
\* ------------------------------------------------------------------------
DeprovisionedTwice ==
  /\ prevRun.op = "deprovision"
  /\ lastRun.op = "deprovision"
  /\ prevRun.device = lastRun.device
  /\ prevRun.remaining = lastRun.remaining
  /\ prevRun.env = lastRun.env

\* C19: when deprovisionDevice runs twice in a row for the same device and
\* the same remaining devices, the router answering both runs alike, the
\* second run leaves the router as the first left it and reports success,
\* with no warning when every command was accepted
C19_DeprovisionIdempotent ==
  DeprovisionedTwice =>
    /\ gateway = lastRun.before
    /\ lastRun.success
    /\ lastRun.env = Working => lastRun.warnings = << >>

\* the first run removed the device's rules and its address, the second
\* found nothing to remove
C19_SecondRunFoundNothing ==
  /\ DeprovisionedTwice
  /\ lastRun.env = Working
  /\ NatEntries(prevRun.before, lastRun.device) > 1
  /\ AddressEntries(prevRun.before, lastRun.device) = 1
  /\ NatEntries(lastRun.before, lastRun.device) = 0
  /\ AddressEntries(lastRun.before, lastRun.device) = 0
  /\ Recorded(lastRun, "ip removed")

\* ------------------------------------------------------------------------
\* Properties of the delete route
\* ------------------------------------------------------------------------
CleanupRan == lastRun' # lastRun /\ lastRun'.op = "deprovision"

\* C20: every DELETE request that reaches the cleanup leaves the device's
\* record out of the table and answers success, whatever the cleanup met
C20_RecordDeletedWhateverCleanup ==
  [][CleanupRan =>
       /\ store[lastRun'.device.id] = lastRun'.device
       /\ store'[lastRun'.device.id] = NoDevice
       /\ lastResponse' = Response(200, TRUE)]_vars

\* a deletion whose NAT removal timed out: the record is gone, the answer
\* is success
C20_DeletedAfterFailedCleanup ==
  /\ lastRun.op = "deprovision"
  /\ lastRun.env = Fault("nat remove", CommandTimeout)
  /\ Warned(lastRun, "nat remove failed")
  /\ store[lastRun.device.id] = NoDevice
  /\ lastResponse = Response(200, TRUE)

\* ------------------------------------------------------------------------
\* Properties of the address check
\* ------------------------------------------------------------------------
\* the addresses the router lists for the configured interface, without
\* their subnet suffix
ListedAddresses(gw) ==
  {split(gw.addresses[i].address, "/")[1] :
     i \in {j \in 1..Len(gw.addresses) :
              gw.addresses[j].interface = controlConfig.lhg60g_ethernet_interface}}

\* C30 (as claimed): a provisioning run whose address listing was answered
\* adds the address exactly when no listed address equals the tunnel IP
C30_ExactAddressMembership ==
  (/\ lastRun.op = "provision"
   /\ lastRun.opened
   /\ lastRun.env.fault # "address print") =>
    (Issued(lastRun, "address add")
       <=> lastRun.device.mikrotik_tunnel_ip \notin ListedAddresses(lastRun.before))

\* ------------------------------------------------------------------------
\* Properties of the reconciler's queries
\* ------------------------------------------------------------------------
\* in the commands of a run, every add comes after the query of that run
QueriedBefore(run, query, add) ==
  \A i \in 1..Len(run.cmds) :
    run.cmds[i] = add => \E j \in 1..(i - 1) : run.cmds[j] = query

\* C23: in every provisioning run an address add comes after the address
\* listing of that run and a NAT add after its NAT listing, and what the run
\* adds is decided by what the router holds when the run starts, whatever
\* earlier runs have seen
C23_NoCachedGatewayState ==
  lastRun.op = "provision" =>
    /\ QueriedBefore(lastRun, "address print", "address add")
    /\ QueriedBefore(lastRun, "nat print", "nat add")
    /\ (lastRun.opened /\ lastRun.env = Working) =>
         /\ Issued(lastRun, "address print")
         /\ Issued(lastRun, "nat print")
         /\ Issued(lastRun, "address add")
              <=> ~checkIPAssignment(lastRun.before, lastRun.device.mikrotik_tunnel_ip,
                                     controlConfig.lhg60g_ethernet_interface, Working)
         /\ Issued(lastRun, "nat add")
              <=> ~checkNATRule(lastRun.before, lastRun.device, Working)

\* an address that an earlier run found, that a deletion removed, and that
\* the next run for the same tunnel IP queries and adds again
C23_AddedAgainAfterRemoval ==
  /\ prevRun.op = "deprovision"
  /\ Issued(prevRun, "address remove")
  /\ AddressEntries(prevRun.before, prevRun.device) = 1
  /\ lastRun.op = "provision"
  /\ lastRun.env = Working
  /\ lastRun.device.mikrotik_tunnel_ip = prevRun.device.mikrotik_tunnel_ip
  /\ AddressEntries(lastRun.before, lastRun.device) = 0
  /\ Issued(lastRun, "address add")

\* ------------------------------------------------------------------------
\* Properties of the parsers
\* ------------------------------------------------------------------------
SpeedGiven(unit) ==
  /\ lastCall.fn = "parsePortSpeed"
  /\ lastCall.done
  /\ lastCall.given.label # <<"s", "t", "a", "t", "u", "s", ":", " ">>
  /\ [k \in 1..4 |-> toLowerCase(lastCall.given.unit[k])] = unit

\* C28: parsePortSpeed gives the rate in whole megabits: the number itself
\* for Mbps (the nearest whole number when it has decimals), a thousand
\* times the number for Gbps, whatever the case of the unit; and null when
\* the output has no rate field with one of the two units
C28_SpeedInMegabits ==
  /\ SpeedGiven(<<"m", "b", "p", "s">>) =>
       /\ lastCall.result.present
       /\ 1000 * lastCall.result.value - lastCall.given.number.thousandths \in -499..500
  /\ SpeedGiven(<<"g", "b", "p", "s">>) =>
       lastCall.result = Some(lastCall.given.number.thousandths)
  /\ (lastCall.fn = "parsePortSpeed" /\ lastCall.done /\ ~SpeedGiven(<<"m", "b", "p", "s">>) /\ ~SpeedGiven(<<"g", "b", "p", "s">>)) =>
       lastCall.result = Null

\* "Rate: 1 GBPS" read as 1000
C28_OneGigabit ==
  /\ SpeedGiven(<<"g", "b", "p", "s">>)
  /\ lastCall.given.number.thousandths = 1000
  /\ lastCall.given.unit = <<"G", "B", "P", "S">>
  /\ lastCall.given.label = <<"R", "a", "t", "e", ":", " ">>
  /\ lastCall.result = Some(1000)

\* ------------------------------------------------------------------------
\* Properties of the gateway-reachable extractor
\* ------------------------------------------------------------------------
Monitored == lastCall.fn = "monitorMikroTik" /\ lastCall.done
\* the command was answered and its output carries the field
Carries(outcome, field) == ~outcome.rejected /\ includes(outcome.stdout, field)
RssiCarried == Carries(lastCall.given.rssiOutcome, <<"r", "s", "s", "i", ":">>)
SpeedCarried == Carries(lastCall.given.speedOutcome, <<"r", "a", "t", "e", ":">>)

\* C27: with the control-router configuration present, monitorMikroTik
\* reports success exactly when one of the two commands gave its metric; it
\* then returns each metric whose command gave it and null for the other
C27_PartialTelemetry ==
  Monitored =>
    /\ lastCall.result.success <=> (lastCall.given.config /\ (RssiCarried \/ SpeedCarried))
    /\ lastCall.result.success =>
         /\ lastCall.result.rssi.present <=> RssiCarried
         /\ lastCall.result.portSpeed.present <=> SpeedCarried

\* the signal command rejected, the speed command answered: success with
\* the speed only
C27_SpeedOnly ==
  /\ Monitored
  /\ lastCall.given.config
  /\ lastCall.given.rssiOutcome.rejected
  /\ SpeedCarried
  /\ lastCall.result.success
  /\ lastCall.result.rssi = Null
  /\ lastCall.result.portSpeed = Some(1000)

\* ------------------------------------------------------------------------
\* Properties of the optical parser
\* ------------------------------------------------------------------------
\* the four values of a result
FourValues(info) == <<info.txPower, info.rxPower, info.voltage, info.temperature>>

\* a call on a blue page whose RX power carries an escaped character
BluePageRead ==
  /\ lastCall.fn = "extractOpticInfo"
  /\ lastCall.done
  /\ lastCall.given.encoding # "plain"
  /\ \E i \in 1..Len(lastCall.given.rxPower) :
       lastCall.given.encoding = "specials" => ~IsDigit(lastCall.given.rxPower[i])

Unsettled(o) == ops[o].pc \in {"connecting", "command"}

\* C24 (as claimed): an operation that has completed has no open session,
\* and every session that is opened is closed at some time
C24_SessionsAlwaysClosed ==
  /\ \A o \in OpIds : [](ops[o].pc = "done" => ~ops[o].open)
  /\ \A o \in OpIds : [](ops[o].open => <>(~ops[o].open))

\* C25 (as claimed): every operation that has started is settled at some time,
\* whatever the remote side does
C25_EveryOperationSettles ==
  \A o \in OpIds : [](Unsettled(o) => <>(ops[o].pc = "done"))

ClosedBy(o) == ops[o].last.via = "close"

\* C26: a command that has ended is rejected only when its standard error
\* holds failure, error or invalid; one that ended with another exit status
\* than 0 and without such a marker is resolved with its standard output
C26_FailureNeedsMarker ==
  \A o \in OpIds :
    ClosedBy(o) =>
      /\ ops[o].last.rejected => HasMarker(ops[o].last.stderr)
      /\ (ops[o].last.code # 0 /\ ~HasMarker(ops[o].last.stderr)) =>
           /\ ~ops[o].last.rejected
           /\ ops[o].last.value \in Stdouts

\* a command of the control router that ended with status 1 and an empty
\* standard error, resolved
C26_NonZeroExitResolved ==
  \E o \in OpIds :
    /\ ClosedBy(o)
    /\ ops[o].kind = "control"
    /\ ops[o].last.code = 1
    /\ ops[o].last.stderr = << >>
    /\ ~ops[o].last.rejected

\* ------------------------------------------------------------------------
\* Properties of the reconciler's calls running together
\* ------------------------------------------------------------------------
\* a poll of the device started while the request that adds it still awaits
\* provisionDevice
PolledEarly(r) ==
  /\ runs[r].request
  /\ runs[r].pc # "done"
  /\ \E p \in BagToSet(polls) : p.device.id = runs[r].device.id

\* C21 (as claimed): no poll of a newly added gateway-reachable device starts
\* before provisionDevice for that device has completed
C21_ProvisionedBeforeFirstPoll == \A r \in RunIds : ~PolledEarly(r)

\* what the call reports when it runs alone from the router it was called on
Alone(run) ==
  IF run.op = "provision" THEN provisionDevice(run.before, run.device, Working)
  ELSE deprovisionDevice(run.before, run.device, run.remaining, Working)

SameOutcome(run) ==
  /\ run.success = Alone(run).success
  /\ run.steps = Alone(run).steps
  /\ run.warnings = Alone(run).warnings

\* the router after the call first and then the call second, each run whole
OneAfterTheOther(first, second) ==
  LET between == Alone(first).gateway
  IN Alone([second EXCEPT !.before = between]).gateway

Count(entries, e) == Cardinality({i \in 1..Len(entries) : entries[i] = e})
SameEntries(listA, listB) ==
  \A i \in 1..Len(listA \o listB) :
    Count(listA, (listA \o listB)[i]) = Count(listB, (listA \o listB)[i])
SameRouter(g, h) == SameEntries(g.addresses, h.addresses) /\ SameEntries(g.nat, h.nat)

BothDone == \A r \in RunIds : runs[r].op # "none" /\ runs[r].pc = "done"

\* C22 (as claimed): two calls for different devices, ports and addresses,
\* interleaved command by command, report what each reports alone and leave
\* the router as the two calls run one after the other leave it
C22_InterleavingsSerialisable ==
  BothDone =>
    /\ \A r \in RunIds : SameOutcome(runs[r])
    /\ \/ SameRouter(gateway, OneAfterTheOther(runs[1], runs[2]))
       \/ SameRouter(gateway, OneAfterTheOther(runs[2], runs[1]))

\* ------------------------------------------------------------------------
\* Properties of the NAT check
\* ------------------------------------------------------------------------
\* the inner addresses the router's rules on the given port forward to
ListedTargets(gw, port) ==
  {gw.nat[i].toAddresses : i \in {j \in 1..Len(gw.nat) : gw.nat[j].dstPort = port}}

\* C31 (as claimed): a provisioning run that the router answers adds the NAT
\* rule exactly when no rule listed for the device's external port forwards
\* to the device's inner address
C31_ExactTargetMembership ==
  (lastRun.op = "provision" /\ lastRun.env = Working) =>
    (Issued(lastRun, "nat add")
       <=> lastRun.device.mikrotik_lhg60g_ip
             \notin ListedTargets(lastRun.before, PortText(lastRun.device.mikrotik_ssh_port)))

\* ------------------------------------------------------------------------
\* Properties of one poll from admission to its end
\* ------------------------------------------------------------------------
\* the attempts of a poll that returned success
Successes(p) == {i \in 1..Len(p.seen) : ~p.seen[i].thrown /\ p.seen[i].success}

\* C32: a successful attempt is the last attempt of its poll and its result is
\* the poll's result at once, with no retry delay and no attempt after it; a
\* poll that has its result has made as many attempts as the index of its
\* first successful attempt, or maxAttempts when none succeeded
C32_StopsAtFirstSuccess ==
  \A p \in BagToSet(polls) :
    /\ \A i \in Successes(p) :
         i = Len(p.seen) /\ p.pc = "notifying" /\ p.result.success /\ p.attempt = i
    /\ p.pc = "notifying" =>
         /\ Len(p.seen) = IF Successes(p) # {}
                          THEN CHOOSE i \in Successes(p) : \A j \in Successes(p) : i <= j
                          ELSE maxAttempts(p.currentDevice)
         /\ p.result.success <=> Successes(p) # {}

\* a poll that succeeded in its second attempt out of three and made no third
C32_SecondOfThreeSucceeded ==
  \E p \in BagToSet(polls) :
    /\ p.pc = "notifying" /\ p.result.success
    /\ maxAttempts(p.currentDevice) = 3
    /\ Len(p.seen) = 2 /\ p.attempt = 2
    /\ Successes(p) = {2}

\* ------------------------------------------------------------------------
\* Properties of start() and stop()
\* ------------------------------------------------------------------------
\* C37: at most one reload interval is alive at any time, it is alive exactly
\* while the scheduler runs and the scheduler holds its handle; a start() of a
\* running scheduler and a stop() of a stopped one change nothing: no reload
\* interval, no entry of the timer map, no timer of the runtime
C37_StartStopIdempotent ==
  /\ [](/\ reloadTimers <= 1
        /\ reloadTimers = (IF isRunning THEN 1 ELSE 0)
        /\ reloadTimer <=> isRunning)
  /\ [][(start /\ isRunning) => UNCHANGED vars]_vars
  /\ [][(stop /\ ~isRunning) => UNCHANGED vars]_vars

\* a running scheduler with its one reload interval and two registered
\* devices, where a further start() finds isRunning set
C37_RunningWithOneReloadTimer ==
  /\ isRunning /\ reloadTimer /\ reloadTimers = 1
  /\ \A d \in 1..2 : timers[d] # NoTimer

\* C33: the counter is never negative and equals the number of invocations
\* that were admitted and have not finished, whichever way the finished ones
\* ended; with no invocation under way it is 0
C33_CounterIsInFlight ==
  /\ activeMonitoringCount >= 0
  /\ activeMonitoringCount = InFlightCount
  /\ polls = EmptyBag => activeMonitoringCount = 0

\* an invocation ended by the exception of its notification call while
\* another one waits: nine admitted invocations are left
C33_ThrownWhileOthersWait ==
  /\ lastEnded.how = "thrown"
  /\ activeMonitoringCount = maxConcurrentMonitoring - 1
  /\ \E p \in BagToSet(polls) : p.pc = "waiting"

\* the invocations that a step starts on their first attempt
Admitted(q) ==
  /\ q.pc = "extracting" /\ q.attempt = 1 /\ q.seen = << >>
  /\ CopiesIn(q, polls') > CopiesIn(q, polls)

\* C35: an invocation is put to its first extractor call only when the row of
\* its device is stored at its admission; the step in which an invocation ends
\* at the missing row starts no extractor call, leaves the cache as it is and
\* the invocation has made no call to the cache or to the notification
\* evaluation
C35_MissingRowEndsPoll ==
  /\ [][\A q \in BagToSet(polls') : Admitted(q) => store[q.device.id] # NoDevice]_vars
  /\ [][(lastEnded' # lastEnded /\ lastEnded'.how = "skipped") =>
          /\ store[lastEnded'.poll.device.id] = NoDevice
          /\ cache' = cache
          /\ \A q \in BagToSet(polls') : ~Admitted(q)
          /\ lastEnded'.poll.calls = << >> /\ lastEnded'.poll.seen = << >>]_vars

\* an invocation ended at the missing row of its deleted device while nine
\* others are in flight, the cache entry of the device still absent
C35_SkippedAtMissingRow ==
  /\ lastEnded.how = "skipped"
  /\ store[lastEnded.poll.device.id] = NoDevice
  /\ cache[lastEnded.poll.device.id] = "none"
  /\ activeMonitoringCount = maxConcurrentMonitoring - 1

\* the cache calls among the calls of an invocation, in order
CacheCalls(calls) == SelectSeq(calls, LAMBDA c : c.op = "cache")

\* C36 (as claimed): an invocation that obtained an outcome has, when it ends,
\* written the cache entry of its device once: 'online' for a success,
\* 'offline' for a failure, and nothing over it
C36_CacheReflectsOutcome ==
  lastEnded.how \in {"returned", "thrown"} =>
    /\ Len(CacheCalls(lastEnded.poll.calls)) = 1
    /\ CacheCalls(lastEnded.poll.calls)[1].status =
         (IF lastEnded.poll.result.success THEN "online" ELSE "offline")

\* ------------------------------------------------------------------------
\* Properties of the admission loop
\* ------------------------------------------------------------------------
Waiting == \E p \in BagToSet(polls) : p.pc = "waiting"

\* C34 (as claimed): whenever an invocation waits for a slot, a state follows
\* in which none waits: the waiting invocation has been admitted
C34_WaitingEventuallyAdmitted == Waiting ~> ~Waiting

\* ------------------------------------------------------------------------
\* Properties of the offline and online notifications
\* ------------------------------------------------------------------------
\* C38 (as claimed): since the latest successful poll of the device at most
\* one 'Device Offline' notification has been sent, whatever the order in
\* which the polls of the device ran, and the poll that sent one had failed,
\* with offline notification enabled and a count brought to retryAttempts or
\* more
C38_OneOfflineNotification ==
  /\ notif.offlineSent <= 1
  /\ notif.lastSend.kind = "offline" =>
       /\ ~notif.lastSend.success
       /\ notif.lastSend.device.notifyOffline
       /\ notif.lastSend.newFailures >= notif.lastSend.device.retryAttempts

\* C39 (as claimed): a 'Device Online' notification is sent by a successful
\* poll while the offline-notified flag of the device is set, and a successful
\* poll of a device whose stored count is not 0 or whose stored flag is set
\* leaves the count at 0 and the flag cleared
C39_RecoveryResetsState ==
  /\ notif.lastSend.kind = "online" =>
       notif.lastSend.success /\ notif.lastSend.stored.isOfflineNotified
  /\ (/\ notif.lastSuccess.seen
      /\ \/ notif.lastSuccess.before.consecutiveFailures > 0
         \/ notif.lastSuccess.before.isOfflineNotified)
       => /\ notif.lastSuccess.after.consecutiveFailures = 0
          /\ ~notif.lastSuccess.after.isOfflineNotified

====
